---- MODULE Spec2Model ----
(***************************************************************************)
(* Policy orchestration and state reconciliation of the Group Policy       *)
(* Manager: PrivilegeChecker, DrivePolicy, BrowserPolicy, PolicyManager,   *)
(* the DataStore settings / toggleStates, the policy IPC handlers of       *)
(* main.js and the renderer functions that drive them.                     *)
(*                                                                         *)
(* A backend command (one execAsync of a PowerShell command line) is       *)
(* atomic: it either takes its whole effect or throws without effect.      *)
(* Strings that the code inspects character by character (domains) are     *)
(* tuples of one-character strings; an error message is the set of the     *)
(* marker substrings its lower-cased text contains.                        *)
(***************************************************************************)
EXTENDS Integers, Sequences, FiniteSets, TLC

\* ------------------------------------------------------------------ bounds
\* number of domains of DomainPool the controller operations may be called with
NumDomains == 3
\* number of domains of DomainPool the requests of the application carry
AppDomains == 1
\* longest allowlist / persisted domain list an operation may build
MaxList == 2
\* backend commands and file writes that may fail in one behaviour
MaxFailures == 1
\* distinct clock readings (new Date().toISOString())
MaxTime == 2

\* ------------------------------------------------------- program constants
\* BrowserPolicy.browserPaths, in Object.entries order
Browsers == <<"chrome", "edge", "firefox">>
NB == Len(Browsers)
\* longest label the domain regex accepts: 1 + {0,61} + 1
MaxLabel == 63

\* ----------------------------------------------------------------- domains
Lower == {"a","b","c","d","e","f","g","h","i","j","k","l","m",
          "n","o","p","q","r","s","t","u","v","w","x","y","z"}
Upper == {"A","B","C","D","E","F","G","H","I","J","K","L","M",
          "N","O","P","Q","R","S","T","U","V","W","X","Y","Z"}
Digit == {"0","1","2","3","4","5","6","7","8","9"}
Alnum == Lower \cup Upper \cup Digit

\* inputs: "a.io", "b d!" (invalid), "b.cc", "-x.io" (invalid), "http://c.de/p"
DomainPool == << <<"a",".","i","o">>,
                 <<"b"," ","d","!">>,
                 <<"b",".","c","c">>,
                 <<"-","x",".","i","o">>,
                 <<"h","t","t","p",":","/","/","c",".","d","e","/","p">> >>
Min(a, b) == IF a < b THEN a ELSE b
DomainsOf(n) == { DomainPool[i] : i \in 1..Min(n, Len(DomainPool)) }
Domains == DomainsOf(NumDomains)

IsPrefix(p, s) == Len(p) <= Len(s) /\ SubSeq(s, 1, Len(p)) = p

\* domain.replace(/^https?:\/\//, '')
StripScheme(s) ==
  IF IsPrefix(<<"h","t","t","p",":","/","/">>, s) THEN SubSeq(s, 8, Len(s))
  ELSE IF IsPrefix(<<"h","t","t","p","s",":","/","/">>, s) THEN SubSeq(s, 9, Len(s))
  ELSE s

\* .replace(/\/.*$/, ''): cut at the first "/"
StripPath(s) ==
  IF \E i \in 1..Len(s) : s[i] = "/"
  THEN LET i == CHOOSE j \in 1..Len(s) : s[j] = "/" /\ \A k \in 1..(j-1) : s[k] # "/"
       IN SubSeq(s, 1, i - 1)
  ELSE s

\* this.domainRegex.test(s): dot-separated labels, each 1..63 characters of
\* [a-zA-Z0-9-] that starts and ends with [a-zA-Z0-9]
domainRegexTest(s) ==
  /\ Len(s) > 0
  /\ \A i \in 1..Len(s) : s[i] \in Alnum \cup {"-", "."}
  /\ s[1] \in Alnum /\ s[Len(s)] \in Alnum
  /\ \A i \in 1..(Len(s) - 1) :
        /\ (s[i] = ".") => s[i+1] \in Alnum
        /\ (s[i+1] = ".") => s[i] \in Alnum
  /\ \A i \in 1..Len(s) : \A j \in i..Len(s) :
        (\A k \in i..j : s[k] # ".") => (j - i + 1 <= MaxLabel)

validateDomain(domain) ==
  /\ Len(domain) > 0
  /\ domainRegexTest(StripPath(StripScheme(domain)))


\* ----------------------------------------------------------- result shapes
\* `error` absent / null
NoError == [code |-> "null", recoverable |-> FALSE, invalidDomains |-> <<>>]
Error(code, recoverable) ==
  [code |-> code, recoverable |-> recoverable, invalidDomains |-> <<>>]
NoStates == [driveBlock |-> FALSE, websiteBlock |-> FALSE, whitelist |-> FALSE,
             lastSynced |-> 0]
NoPolicies == [writeBlocked |-> FALSE, status |-> "", error |-> NoError,
               whitelistActive |-> FALSE, whitelistedDomains |-> <<>>,
               domainCount |-> 0]
\* the object an operation returns; fields an operation does not set keep
\* these defaults
Result(success, error, status) ==
  [success |-> success, error |-> error, status |-> status,
   results |-> <<>>, domains |-> <<>>, isBlocked |-> FALSE,
   steps |-> <<>>, states |-> NoStates, policies |-> NoPolicies]
NoResult == Result(FALSE, NoError, "none")

\* ------------------------------------------------------------ the backend
\* wp: the WriteProtect value, -1 when the key or value is missing;
\* br[i]: URLBlocklist has rule 1 = "*" (block), URLAllowlist exists
\* (allowKey) and its numbered values in index order (allow)
NoBrowserPolicy == [block |-> FALSE, allowKey |-> FALSE, allow |-> <<>>]
DefaultBackend == [wp |-> -1, br |-> [i \in 1..NB |-> NoBrowserPolicy]]

\* one call's view of the environment: whether `net session` succeeds when the
\* call starts (admin; from the flipAt-th check on it is the opposite;
\* between calls the privilege state changes freely), which backend
\* commands of the call throw (fails, by ordinal), the message they throw
\* with (msg), which file writes throw (saveFails) and the clock reading (t)
Context(admin, flipAt, fails, msg, saveFails, t) ==
  [admin |-> admin, flipAt |-> flipAt, fails |-> fails, msg |-> msg,
   saveFails |-> saveFails, t |-> t]

\* what a call has done so far: backend, commands issued (n, log),
\* privilege checks made (k), controller operations entered (calls)
Machine(be) == [be |-> be, n |-> 0, k |-> 0, log |-> <<>>, calls |-> <<>>]

\* await execAsync(command): the n-th command of the call
Exec(cx, m, target, cmd, be2) ==
  LET n == m.n + 1
      ok == n \notin cx.fails
  IN [m EXCEPT !.n = n,
               !.be = IF ok THEN be2 ELSE @,
               !.log = Append(@, [target |-> target, cmd |-> cmd, ok |-> ok])]
LastOk(m) == m.log[Len(m.log)].ok
Enter(m, op) == [m EXCEPT !.calls = Append(@, op)]

\* ------------------------------------------------------- PrivilegeChecker
\* the k-th `net session` of the call
checkAdminPrivileges(cx, k) ==
  IF cx.flipAt # 0 /\ k >= cx.flipAt THEN ~cx.admin ELSE cx.admin

verifyPrivilegesForOperation(cx, m) ==
  LET k == m.k + 1
      isAdmin == checkAdminPrivileges(cx, k)
      m2 == [m EXCEPT !.k = k]
  IN IF ~isAdmin
     THEN [m |-> m2, r |-> Result(FALSE, Error("INSUFFICIENT_PRIVILEGES", TRUE), "")]
     ELSE [m |-> m2, r |-> Result(TRUE, NoError, "")]

\* ------------------------------------------------------------ DrivePolicy
\* error messages, as the set of marker substrings they contain
ErrMsgs == { {}, {"access denied"}, {"privilege", "registry"}, {"itemnotfound"} }

handleRegistryError(msg) ==
  IF "access is denied" \in msg \/ "access denied" \in msg
  THEN Result(FALSE, Error("REGISTRY_ACCESS_DENIED", TRUE), "")
  ELSE IF "privilege" \in msg \/ "administrator" \in msg
  THEN Result(FALSE, Error("INSUFFICIENT_PRIVILEGES", TRUE), "")
  ELSE IF "registry" \in msg \/ "itemnotfound" \in msg
  THEN Result(FALSE, Error("REGISTRY_ERROR", TRUE), "")
  ELSE Result(FALSE, Error("OPERATION_FAILED", FALSE), "")

blockWriteAccess(cx, m0) ==
  LET pc == verifyPrivilegesForOperation(cx, Enter(m0, "blockWriteAccess"))
  IN IF ~pc.r.success THEN pc
     ELSE LET m2 == Exec(cx, pc.m, "drive", "setWriteProtect1",
                         [pc.m.be EXCEPT !.wp = 1])
          IN IF LastOk(m2)
             THEN [m |-> m2, r |-> Result(TRUE, NoError, "blocked")]
             ELSE [m |-> m2, r |-> handleRegistryError(cx.msg)]

allowWriteAccess(cx, m0) ==
  LET pc == verifyPrivilegesForOperation(cx, Enter(m0, "allowWriteAccess"))
  IN IF ~pc.r.success THEN pc
     ELSE LET m2 == Exec(cx, pc.m, "drive", "setWriteProtect0",
                         [pc.m.be EXCEPT !.wp = 0])
          IN IF LastOk(m2)
             THEN [m |-> m2, r |-> Result(TRUE, NoError, "allowed")]
             ELSE [m |-> m2, r |-> handleRegistryError(cx.msg)]

\* getWriteAccessStatus taking every value other than 0 for a block
getWriteAccessStatusClosed(cx, m0) ==
  LET m2 == Exec(cx, Enter(m0, "getWriteAccessStatus"), "drive",
                 "readWriteProtect", m0.be)
      value == m2.be.wp
  IN IF LastOk(m2)
     THEN [m |-> m2,
           r |-> [Result(TRUE, NoError, IF value # 0 THEN "blocked" ELSE "allowed")
                    EXCEPT !.isBlocked = (value # 0)]]
     ELSE [m |-> m2, r |-> handleRegistryError(cx.msg)]

getWriteAccessStatus(cx, m0) ==
  LET m2 == Exec(cx, Enter(m0, "getWriteAccessStatus"), "drive",
                 "readWriteProtect", m0.be)
      value == m2.be.wp
  IN IF LastOk(m2)
     THEN [m |-> m2,
           r |-> [Result(TRUE, NoError, IF value = 1 THEN "blocked" ELSE "allowed")
                    EXCEPT !.isBlocked = (value = 1)]]
     ELSE [m |-> m2, r |-> handleRegistryError(cx.msg)]

\* ---------------------------------------------------------- BrowserPolicy
\* the effect of one successfully executed browser command on target i
Effect(be, i, cmd) ==
  CASE cmd = "setBlocklist"    -> [be EXCEPT !.br[i].block = TRUE]
    [] cmd = "removeBlocklist" -> [be EXCEPT !.br[i].block = FALSE]
    [] cmd = "createAllowlist" -> [be EXCEPT !.br[i].allowKey = TRUE]
    [] cmd = "removeBoth"      -> [be EXCEPT !.br[i] = NoBrowserPolicy]
    [] OTHER                   -> be

\* Set-ItemProperty -Path allowlistPath -Name idx -Value domain
SetAllowEntry(be, i, idx, domain) ==
  [be EXCEPT !.br[i].allow =
     IF idx <= Len(@) THEN [@ EXCEPT ![idx] = domain] ELSE Append(@, domain)]

\* _handlePolicyError, reached from the outer catch of a browser operation;
\* a throwing command is caught by the try block of its target before that
handlePolicyError(msg) ==
  IF "access is denied" \in msg \/ "access denied" \in msg
  THEN Result(FALSE, Error("REGISTRY_ACCESS_DENIED", TRUE), "")
  ELSE IF "privilege" \in msg \/ "administrator" \in msg
  THEN Result(FALSE, Error("INSUFFICIENT_PRIVILEGES", TRUE), "")
  ELSE IF "registry" \in msg \/ "itemnotfound" \in msg
  THEN Result(FALSE, Error("REGISTRY_ERROR", TRUE), "")
  ELSE Result(FALSE, Error("OPERATION_FAILED", FALSE), "")

AllSuccess(results) == \A j \in 1..Len(results) : results[j].success

\* the loop over Object.entries(this.browserPaths) of blockAllWebsites,
\* unblockAllWebsites and disableWhitelist: one command per target, a throw
\* is recorded and the loop goes on
RECURSIVE forEachBrowser(_, _, _, _, _)
forEachBrowser(cx, m, cmd, results, i) ==
  IF i > NB THEN [m |-> m, results |-> results]
  ELSE LET m2 == Exec(cx, m, Browsers[i], cmd, Effect(m.be, i, cmd))
       IN forEachBrowser(cx, m2, cmd,
            Append(results, [browser |-> Browsers[i], success |-> LastOk(m2)]),
            i + 1)

\* an aggregate that reports the first target's outcome as the overall one
AggregateFirst(lp, status) ==
  [m |-> lp.m,
   r |-> [Result(lp.results[1].success, NoError, status)
            EXCEPT !.results = lp.results]]

\* the result object the fan-out operations build: no error field
Aggregate(lp, status) ==
  [m |-> lp.m,
   r |-> [Result(AllSuccess(lp.results), NoError, status)
            EXCEPT !.results = lp.results]]

blockAllWebsites(cx, m0) ==
  LET pc == verifyPrivilegesForOperation(cx, Enter(m0, "blockAllWebsites"))
  IN IF ~pc.r.success THEN pc
     ELSE Aggregate(forEachBrowser(cx, pc.m, "setBlocklist", <<>>, 1), "blocked")

\* unblockAllWebsites without its privilege check
unblockAllWebsitesUngated(cx, m0) ==
  Aggregate(forEachBrowser(cx, Enter(m0, "unblockAllWebsites"),
                           "removeBlocklist", <<>>, 1), "unblocked")

unblockAllWebsites(cx, m0) ==
  LET pc == verifyPrivilegesForOperation(cx, Enter(m0, "unblockAllWebsites"))
  IN IF ~pc.r.success THEN pc
     ELSE Aggregate(forEachBrowser(cx, pc.m, "removeBlocklist", <<>>, 1), "unblocked")

\* disableWhitelist removing the keys without Test-Path: a missing key is an
\* error
disableWhitelistStrict(cx, m0) ==
  LET pc == verifyPrivilegesForOperation(cx, Enter(m0, "disableWhitelist"))
  IN IF ~pc.r.success THEN pc
     ELSE IF \E i \in 1..NB : ~pc.m.be.br[i].block \/ ~pc.m.be.br[i].allowKey
     THEN [m |-> pc.m, r |-> Result(FALSE, Error("REGISTRY_ERROR", TRUE), "")]
     ELSE Aggregate(forEachBrowser(cx, pc.m, "removeBoth", <<>>, 1),
                    "whitelist_disabled")

disableWhitelist(cx, m0) ==
  LET pc == verifyPrivilegesForOperation(cx, Enter(m0, "disableWhitelist"))
  IN IF ~pc.r.success THEN pc
     ELSE Aggregate(forEachBrowser(cx, pc.m, "removeBoth", <<>>, 1),
                    "whitelist_disabled")

\* for (let i = 0; i < domains.length; i++): stops at the first throw
RECURSIVE writeDomains(_, _, _, _, _)
writeDomains(cx, m, i, domains, idx) ==
  IF idx > Len(domains) THEN [m |-> m, ok |-> TRUE]
  ELSE LET m2 == Exec(cx, m, Browsers[i], "setAllowEntry",
                      SetAllowEntry(m.be, i, idx, domains[idx]))
       IN IF LastOk(m2) THEN writeDomains(cx, m2, i, domains, idx + 1)
          ELSE [m |-> m2, ok |-> FALSE]

\* the try block without its first command, the block-all rule
enableOneAllowOnly(cx, m, i, domains) ==
  LET m2 == Exec(cx, m, Browsers[i], "createAllowlist",
                 Effect(m.be, i, "createAllowlist"))
  IN IF ~LastOk(m2) THEN [m |-> m2, ok |-> FALSE]
     ELSE writeDomains(cx, m2, i, domains, 1)

\* the body of enableWhitelist's try block for target i
enableOne(cx, m, i, domains) ==
  LET m1 == Exec(cx, m, Browsers[i], "setBlocklist", Effect(m.be, i, "setBlocklist"))
  IN IF ~LastOk(m1) THEN [m |-> m1, ok |-> FALSE]
     ELSE LET m2 == Exec(cx, m1, Browsers[i], "createAllowlist",
                         Effect(m1.be, i, "createAllowlist"))
          IN IF ~LastOk(m2) THEN [m |-> m2, ok |-> FALSE]
             ELSE writeDomains(cx, m2, i, domains, 1)

RECURSIVE enableLoop(_, _, _, _, _)
enableLoop(cx, m, domains, results, i) ==
  IF i > NB THEN [m |-> m, results |-> results]
  ELSE LET one == enableOne(cx, m, i, domains)
       IN enableLoop(cx, one.m, domains,
            Append(results, [browser |-> Browsers[i], success |-> one.ok]),
            i + 1)

\* domains.filter(domain => !this.validateDomain(domain))
InvalidDomains(domains) == SelectSeq(domains, LAMBDA d : ~validateDomain(d))

\* enableWhitelist validating after the per-target writes
enableWhitelistLate(cx, m0, domains) ==
  LET pc == verifyPrivilegesForOperation(cx, Enter(m0, "enableWhitelist"))
      invalidDomains == InvalidDomains(domains)
      lp == enableLoop(cx, pc.m, domains, <<>>, 1)
  IN IF ~pc.r.success THEN pc
     ELSE IF Len(invalidDomains) > 0
     THEN [m |-> lp.m,
           r |-> Result(FALSE,
                        [Error("INVALID_DOMAIN_FORMAT", TRUE)
                           EXCEPT !.invalidDomains = invalidDomains], "")]
     ELSE Aggregate(lp, "whitelist_enabled")

enableWhitelist(cx, m0, domains) ==
  LET pc == verifyPrivilegesForOperation(cx, Enter(m0, "enableWhitelist"))
      invalidDomains == InvalidDomains(domains)
  IN IF ~pc.r.success THEN pc
     ELSE IF Len(invalidDomains) > 0
     THEN [m |-> pc.m,
           r |-> Result(FALSE,
                        [Error("INVALID_DOMAIN_FORMAT", TRUE)
                           EXCEPT !.invalidDomains = invalidDomains], "")]
     ELSE Aggregate(enableLoop(cx, pc.m, domains, <<>>, 1), "whitelist_enabled")

getDomainList(cx, m0) ==
  LET m2 == Exec(cx, Enter(m0, "getDomainList"), Browsers[1], "readAllowlist", m0.be)
      domains == IF LastOk(m2) THEN m2.be.br[1].allow ELSE <<>>
  IN [m |-> m2, r |-> [Result(TRUE, NoError, "") EXCEPT !.domains = domains]]

\* currentDomains.domains.includes(domain)
Includes(list, d) == \E j \in 1..Len(list) : list[j] = d

\* addDomain appending without looking for the domain in the current list
addDomainAppend(cx, m0, domain) ==
  LET m1 == Enter(m0, "addDomain")
  IN IF ~validateDomain(domain)
     THEN [m |-> m1, r |-> Result(FALSE, Error("INVALID_DOMAIN_FORMAT", TRUE), "")]
     ELSE LET pc == verifyPrivilegesForOperation(cx, m1)
          IN IF ~pc.r.success THEN pc
             ELSE LET currentDomains == getDomainList(cx, pc.m)
                  IN IF ~currentDomains.r.success THEN currentDomains
                     ELSE enableWhitelist(cx, currentDomains.m,
                                          Append(currentDomains.r.domains, domain))

addDomain(cx, m0, domain) ==
  LET m1 == Enter(m0, "addDomain")
  IN IF ~validateDomain(domain)
     THEN [m |-> m1, r |-> Result(FALSE, Error("INVALID_DOMAIN_FORMAT", TRUE), "")]
     ELSE LET pc == verifyPrivilegesForOperation(cx, m1)
          IN IF ~pc.r.success THEN pc
             ELSE LET currentDomains == getDomainList(cx, pc.m)
                  IN IF ~currentDomains.r.success THEN currentDomains
                     ELSE IF Includes(currentDomains.r.domains, domain)
                     THEN [m |-> currentDomains.m,
                           r |-> Result(TRUE, NoError, "already_exists")]
                     ELSE enableWhitelist(cx, currentDomains.m,
                                          Append(currentDomains.r.domains, domain))

\* removeDomain rewriting the list also when nothing is left of it
removeDomainRewrite(cx, m0, domain) ==
  LET pc == verifyPrivilegesForOperation(cx, Enter(m0, "removeDomain"))
  IN IF ~pc.r.success THEN pc
     ELSE LET currentDomains == getDomainList(cx, pc.m)
              updatedDomains == SelectSeq(currentDomains.r.domains,
                                          LAMBDA d : d # domain)
          IN IF ~currentDomains.r.success THEN currentDomains
             ELSE IF ~Includes(currentDomains.r.domains, domain)
             THEN [m |-> currentDomains.m, r |-> Result(TRUE, NoError, "not_found")]
             ELSE enableWhitelist(cx, currentDomains.m, updatedDomains)

removeDomain(cx, m0, domain) ==
  LET pc == verifyPrivilegesForOperation(cx, Enter(m0, "removeDomain"))
  IN IF ~pc.r.success THEN pc
     ELSE LET currentDomains == getDomainList(cx, pc.m)
              updatedDomains == SelectSeq(currentDomains.r.domains,
                                          LAMBDA d : d # domain)
          IN IF ~currentDomains.r.success THEN currentDomains
             ELSE IF ~Includes(currentDomains.r.domains, domain)
             THEN [m |-> currentDomains.m, r |-> Result(TRUE, NoError, "not_found")]
             ELSE IF Len(updatedDomains) = 0
             THEN disableWhitelist(cx, currentDomains.m)
             ELSE enableWhitelist(cx, currentDomains.m, updatedDomains)

\* ---------------------------------------------------------- PolicyManager
\* a settings argument: a field that should be a boolean (isBool says whether
\* typeof is 'boolean'), the domains field, the action string ("" when
\* missing) and the domain field
JsBool(b) == [isBool |-> TRUE, val |-> b]
NotBool == [isBool |-> FALSE, val |-> FALSE]
JsArray(items) == [isArray |-> TRUE, items |-> items]
NotArray == [isArray |-> FALSE, items |-> <<>>]
JsString(chars) == [isString |-> TRUE, chars |-> chars]
NotString == [isString |-> FALSE, chars |-> <<>>]
NoSettings == [blockWriteAccess |-> NotBool, blockAllWebsites |-> NotBool,
               enabled |-> NotBool, domains |-> NotArray, action |-> "",
               domain |-> NotString]

InvalidSettings == Result(FALSE, Error("INVALID_SETTINGS", FALSE), "")

applyDrivePolicy(cx, m, settings) ==
  IF ~settings.blockWriteAccess.isBool THEN [m |-> m, r |-> InvalidSettings]
  ELSE IF settings.blockWriteAccess.val THEN blockWriteAccess(cx, m)
  ELSE allowWriteAccess(cx, m)

applyBrowserPolicy(cx, m, settings) ==
  IF ~settings.blockAllWebsites.isBool THEN [m |-> m, r |-> InvalidSettings]
  ELSE IF settings.blockAllWebsites.val THEN blockAllWebsites(cx, m)
  ELSE unblockAllWebsites(cx, m)

applyWhitelistPolicy(cx, m, settings) ==
  IF ~settings.enabled.isBool THEN [m |-> m, r |-> InvalidSettings]
  ELSE IF settings.enabled.val
  THEN IF ~settings.domains.isArray THEN [m |-> m, r |-> InvalidSettings]
       ELSE IF Len(settings.domains.items) = 0 THEN [m |-> m, r |-> InvalidSettings]
       ELSE enableWhitelist(cx, m, settings.domains.items)
  ELSE disableWhitelist(cx, m)

\* _applyDomainPolicy without its tests of action and domain
applyDomainPolicyUnchecked(cx, m, settings) ==
  IF settings.action = "add" THEN addDomain(cx, m, settings.domain.chars)
  ELSE removeDomain(cx, m, settings.domain.chars)

applyDomainPolicy(cx, m, settings) ==
  IF settings.action = "" \/ settings.action \notin {"add", "remove"}
  THEN [m |-> m, r |-> InvalidSettings]
  ELSE IF ~settings.domain.isString \/ Len(settings.domain.chars) = 0
  THEN [m |-> m, r |-> InvalidSettings]
  ELSE IF settings.action = "add" THEN addDomain(cx, m, settings.domain.chars)
  ELSE removeDomain(cx, m, settings.domain.chars)

applyPolicy(cx, m0, policyType, settings) ==
  LET pc == verifyPrivilegesForOperation(cx, m0)
  IN IF ~pc.r.success THEN pc
     ELSE CASE policyType = "drive"     -> applyDrivePolicy(cx, pc.m, settings)
            [] policyType = "browser"   -> applyBrowserPolicy(cx, pc.m, settings)
            [] policyType = "whitelist" -> applyWhitelistPolicy(cx, pc.m, settings)
            [] policyType = "domain"    -> applyDomainPolicy(cx, pc.m, settings)
            [] OTHER -> [m |-> pc.m,
                         r |-> Result(FALSE, Error("INVALID_POLICY_TYPE", FALSE), "")]

\* getCurrentPolicyStatus handing on a failed drive status read
getCurrentPolicyStatusStrict(cx, m0) ==
  LET driveStatus == getWriteAccessStatus(cx, m0)
      domainList == getDomainList(cx, driveStatus.m)
      count == Len(domainList.r.domains)
  IN IF ~driveStatus.r.success THEN [m |-> domainList.m, r |-> driveStatus.r]
     ELSE [m |-> domainList.m,
           r |-> [Result(TRUE, NoError, "") EXCEPT !.policies =
                    [writeBlocked |-> driveStatus.r.isBlocked,
                     status |-> driveStatus.r.status,
                     error |-> NoError,
                     whitelistActive |-> domainList.r.success /\ count > 0,
                     whitelistedDomains |-> domainList.r.domains,
                     domainCount |-> count]]]

getCurrentPolicyStatus(cx, m0) ==
  LET driveStatus == getWriteAccessStatus(cx, m0)
      domainList == getDomainList(cx, driveStatus.m)
      count == Len(domainList.r.domains)
      whitelistActive == domainList.r.success /\ count > 0
  IN [m |-> domainList.m,
      r |-> [Result(TRUE, NoError, "") EXCEPT !.policies =
               [writeBlocked |-> IF driveStatus.r.success
                                 THEN driveStatus.r.isBlocked ELSE FALSE,
                status |-> IF driveStatus.r.success
                           THEN driveStatus.r.status ELSE "unknown",
                error |-> IF driveStatus.r.success
                          THEN NoError ELSE driveStatus.r.error,
                whitelistActive |-> whitelistActive,
                whitelistedDomains |-> IF domainList.r.success
                                       THEN domainList.r.domains ELSE <<>>,
                domainCount |-> IF domainList.r.success THEN count ELSE 0]]]

\* syncPolicyStates reporting the designated target's block-all rule
syncPolicyStatesBlocklist(cx, m0) ==
  LET driveStatus == getWriteAccessStatus(cx, m0)
      domainList == getDomainList(cx, driveStatus.m)
  IN [m |-> domainList.m,
      r |-> [Result(TRUE, NoError, "") EXCEPT !.states =
               [driveBlock |-> IF driveStatus.r.success
                               THEN driveStatus.r.isBlocked ELSE FALSE,
                websiteBlock |-> m0.be.br[1].block,
                whitelist |-> domainList.r.success
                              /\ Len(domainList.r.domains) > 0,
                lastSynced |-> cx.t]]]

syncPolicyStates(cx, m0) ==
  LET driveStatus == getWriteAccessStatus(cx, m0)
      domainList == getDomainList(cx, driveStatus.m)
  IN [m |-> domainList.m,
      r |-> [Result(TRUE, NoError, "") EXCEPT !.states =
               [driveBlock |-> IF driveStatus.r.success
                               THEN driveStatus.r.isBlocked ELSE FALSE,
                websiteBlock |-> FALSE,
                whitelist |-> domainList.r.success
                              /\ Len(domainList.r.domains) > 0,
                lastSynced |-> cx.t]]]

\* resetAllPolicies giving up at the first step that fails
resetAllPoliciesAbort(cx, m0) ==
  LET pc == verifyPrivilegesForOperation(cx, m0)
      drive == allowWriteAccess(cx, pc.m)
      browser == unblockAllWebsites(cx, drive.m)
      whitelist == disableWhitelist(cx, browser.m)
      failed(m, steps) ==
        [m |-> m,
         r |-> [Result(FALSE, Error("PARTIAL_RESET_FAILURE", TRUE), "")
                  EXCEPT !.steps = steps]]
  IN IF ~pc.r.success THEN pc
     ELSE IF ~drive.r.success THEN failed(drive.m, <<drive.r>>)
     ELSE IF ~browser.r.success THEN failed(browser.m, <<drive.r, browser.r>>)
     ELSE IF ~whitelist.r.success
     THEN failed(whitelist.m, <<drive.r, browser.r, whitelist.r>>)
     ELSE [m |-> whitelist.m,
           r |-> [Result(TRUE, NoError, "")
                    EXCEPT !.steps = <<drive.r, browser.r, whitelist.r>>]]

resetAllPolicies(cx, m0) ==
  LET pc == verifyPrivilegesForOperation(cx, m0)
      drive == allowWriteAccess(cx, pc.m)
      browser == unblockAllWebsites(cx, drive.m)
      whitelist == disableWhitelist(cx, browser.m)
      steps == <<drive.r, browser.r, whitelist.r>>
      allSucceeded == drive.r.success /\ browser.r.success /\ whitelist.r.success
  IN IF ~pc.r.success THEN pc
     ELSE IF allSucceeded
     THEN [m |-> whitelist.m,
           r |-> [Result(TRUE, NoError, "") EXCEPT !.steps = steps]]
     ELSE [m |-> whitelist.m,
           r |-> [Result(FALSE, Error("PARTIAL_RESET_FAILURE", TRUE), "")
                    EXCEPT !.steps = steps]]

\* --------------------------------------------------------------- DataStore
\* this.data: settings and toggleStates (initializeDefaultData)
DefaultSettings == [driveBlockEnabled |-> FALSE, websiteBlockEnabled |-> FALSE,
                    whitelistEnabled |-> FALSE, whitelistedDomains |-> <<>>,
                    lastUpdated |-> 1]
DefaultToggleStates == [driveBlock |-> FALSE, websiteBlock |-> FALSE,
                        whitelist |-> FALSE, lastSynced |-> 0]

\* bcrypt.hash(text, 10) and bcrypt.compare(text, hash): a hash is made with
\* a random salt, and it matches the text it was made from and no other
Salts == 1..2
Hash(text, salt) == <<"bcrypt", salt, text>>
Compare(text, hash) == Len(hash) = 3 /\ hash[1] = "bcrypt" /\ hash[3] = text

\* encryptString / decryptString: AES with a random initialisation vector
encryptString(str, iv) == <<iv, str>>
decryptString(encryptedStr) == encryptedStr[2]

\* initializeDefaultData: the account admin/admin without security
\* question (null: <<>>), and the generated developer key
DefaultCredentials ==
  [username |-> "admin", passwordHash |-> Hash(<<"a","d","m","i","n">>, 1),
   securityQuestion |-> <<>>, securityAnswerHash |-> <<>>, lastModified |-> 1]
DefaultDeveloperKey == encryptString("key0", 1)

\* { ...base, ...partial }
Merge(base, partial) ==
  [key \in DOMAIN base \cup DOMAIN partial |->
     IF key \in DOMAIN partial THEN partial[key] ELSE base[key]]

\* the store during one handler: in-memory data, file writes made so far,
\* and whether a write has thrown (the exception skips the rest of the try)
Store(settings, toggleStates) ==
  [settings |-> settings, toggleStates |-> toggleStates, saves |-> 0, threw |-> FALSE]

\* this.data with all its four parts
Data(creds, key, settings, toggleStates) ==
  [credentials |-> creds, developerKey |-> key, settings |-> settings,
   toggleStates |-> toggleStates, saves |-> 0, threw |-> FALSE]

\* save(data): this.data is assigned before fs.writeFile, which may throw
save(cx, ds) ==
  LET n == ds.saves + 1
  IN [ds EXCEPT !.saves = n, !.threw = (n \in cx.saveFails)]

\* updateSettings replacing the settings object by the argument
updateSettingsReplace(cx, ds, partial) ==
  IF ds.threw THEN ds
  ELSE save(cx, [ds EXCEPT !.settings = Merge(partial, [lastUpdated |-> cx.t])])

updateSettings(cx, ds, partial) ==
  IF ds.threw THEN ds
  ELSE save(cx, [ds EXCEPT !.settings =
                   Merge(Merge(@, partial), [lastUpdated |-> cx.t])])

updateToggleStates(cx, ds, partial) ==
  IF ds.threw THEN ds
  ELSE save(cx, [ds EXCEPT !.toggleStates = Merge(@, partial)])

updateCredentials(cx, ds, partial) ==
  IF ds.threw THEN ds
  ELSE save(cx, [ds EXCEPT !.credentials =
                   Merge(Merge(@, partial), [lastModified |-> cx.t])])

updateDeveloperKey(cx, ds, newKey, iv) ==
  IF ds.threw THEN ds
  ELSE save(cx, [ds EXCEPT !.developerKey = encryptString(newKey, iv)])

\* ------------------------------------------------- IPC handlers (main.js)
NotAuthenticated == Result(FALSE, Error("NOT_AUTHENTICATED", TRUE), "")
\* a catch block that reports every exception under one code
CaughtGeneric(code) == Result(FALSE, Error("UNKNOWN_ERROR", FALSE), "")

\* the catch block of a handler
Caught(code) == Result(FALSE, Error(code, FALSE), "")

\* ------------------------------------------ AuthManager, PasswordManager
\* passwords, answers and keys are strings: sequences of characters
MinPassword == 8
MaxPassword == 128

\* validatePasswordStrength(password).valid
validatePasswordStrength(password) ==
  /\ Len(password) >= MinPassword
  /\ Len(password) <= MaxPassword
  /\ \E i \in 1..Len(password) : password[i] \in Upper
  /\ \E i \in 1..Len(password) : password[i] \in Lower
  /\ \E i \in 1..Len(password) : password[i] \in Digit

\* AuthManager.authenticate: the result; the session becomes authenticated
\* exactly when it is a success
authenticate(creds, username, password) ==
  IF creds.username # username
  THEN Result(FALSE, Error("INVALID_CREDENTIALS", TRUE), "")
  ELSE IF ~Compare(password, creds.passwordHash)
  THEN Result(FALSE, Error("INVALID_CREDENTIALS", TRUE), "")
  ELSE Result(TRUE, NoError, "")

\* what a PasswordManager operation has done: the store and its result
Done(ds, r) == [ds |-> ds, r |-> r]

\* the tail shared by the three methods: validate the new password, hash it
\* and store the hash; a failing file write is caught by the method
setPassword(cx, ds, newPassword, salt) ==
  IF ~validatePasswordStrength(newPassword)
  THEN Done(ds, Result(FALSE, Error("WEAK_PASSWORD", TRUE), ""))
  ELSE LET stored == updateCredentials(cx, ds,
                       [passwordHash |-> Hash(newPassword, salt)])
       IN Done(stored, IF stored.threw THEN Caught("PASSWORD_CHANGE_ERROR")
                       ELSE Result(TRUE, NoError, ""))

changePasswordWithOld(cx, ds, oldPassword, newPassword, salt) ==
  IF ~Compare(oldPassword, ds.credentials.passwordHash)
  THEN Done(ds, Result(FALSE, Error("INVALID_OLD_PASSWORD", TRUE), ""))
  ELSE setPassword(cx, ds, newPassword, salt)

changePasswordWithSecurityQuestion(cx, ds, answer, newPassword, salt) ==
  IF ds.credentials.securityQuestion = <<>> \/ ds.credentials.securityAnswerHash = <<>>
  THEN Done(ds, Result(FALSE, Error("NO_SECURITY_QUESTION", FALSE), ""))
  ELSE IF ~Compare(answer, ds.credentials.securityAnswerHash)
  THEN Done(ds, Result(FALSE, Error("INVALID_SECURITY_ANSWER", TRUE), ""))
  ELSE setPassword(cx, ds, newPassword, salt)

\* changePasswordWithDeveloperKey accepting every key
changePasswordWithAnyKey(cx, ds, key, newPassword, salt) ==
  setPassword(cx, ds, newPassword, salt)

changePasswordWithDeveloperKey(cx, ds, key, newPassword, salt) ==
  IF key # decryptString(ds.developerKey)
  THEN Done(ds, Result(FALSE, Error("INVALID_DEVELOPER_KEY", TRUE), ""))
  ELSE setPassword(cx, ds, newPassword, salt)

setSecurityQuestion(cx, ds, question, answer, iv, salt) ==
  LET stored == updateCredentials(cx, ds,
                  [securityQuestion |-> encryptString(question, iv),
                   securityAnswerHash |-> Hash(answer, salt)])
  IN Done(stored, IF stored.threw THEN Caught("SECURITY_QUESTION_ERROR")
                  ELSE Result(TRUE, NoError, ""))

\* auth:changePassword
ipcChangePassword(cx, auth, ds, method, data, salt) ==
  IF ~auth THEN Done(ds, NotAuthenticated)
  ELSE CASE method = "old" ->
              changePasswordWithOld(cx, ds, data.oldPassword, data.newPassword, salt)
         [] method = "security" ->
              changePasswordWithSecurityQuestion(cx, ds, data.answer, data.newPassword, salt)
         [] method = "developer" ->
              changePasswordWithDeveloperKey(cx, ds, data.key, data.newPassword, salt)
         [] OTHER -> Done(ds, Result(FALSE, Error("INVALID_METHOD", FALSE), ""))

\* auth:setupSecurityQuestion
ipcSetupSecurityQuestion(cx, auth, ds, question, answer, iv, salt) ==
  IF ~auth THEN Done(ds, NotAuthenticated)
  ELSE setSecurityQuestion(cx, ds, question, answer, iv, salt)

\* what a handler has done: the machine after the PolicyManager call, the
\* store, the PolicyManager result (pm, NoResult when it was not called) and
\* the result returned to the renderer (r)
Out(m, ds, pm, r) == [m |-> m, ds |-> ds, pm |-> pm, r |-> r]
Finish(res, ds, code) ==
  Out(res.m, ds, res.r, IF ds.threw THEN Caught(code) ELSE res.r)

\* toggleDriveBlock writing the store before it looks at the result
toggleDriveBlockEager(cx, auth, be, ds, enabled) ==
  IF ~auth THEN Out(Machine(be), ds, NoResult, NotAuthenticated)
  ELSE LET result == applyPolicy(cx, Machine(be), "drive",
                       [NoSettings EXCEPT !.blockWriteAccess = JsBool(enabled)])
       IN Finish(result,
                 updateToggleStates(cx,
                   updateSettings(cx, ds, [driveBlockEnabled |-> enabled]),
                   [driveBlock |-> enabled]),
                 "POLICY_ERROR")

toggleDriveBlock(cx, auth, be, ds, enabled) ==
  IF ~auth THEN Out(Machine(be), ds, NoResult, NotAuthenticated)
  ELSE LET result == applyPolicy(cx, Machine(be), "drive",
                       [NoSettings EXCEPT !.blockWriteAccess = JsBool(enabled)])
       IN IF result.r.success
          THEN Finish(result,
                 updateToggleStates(cx,
                   updateSettings(cx, ds, [driveBlockEnabled |-> enabled]),
                   [driveBlock |-> enabled]),
                 "POLICY_ERROR")
          ELSE Finish(result, ds, "POLICY_ERROR")

\* toggleWebsiteBlock without the authentication test
toggleWebsiteBlockOpen(cx, auth, be, ds, enabled) ==
  LET result == applyPolicy(cx, Machine(be), "browser",
                  [NoSettings EXCEPT !.blockAllWebsites = JsBool(enabled)])
  IN IF result.r.success
     THEN Finish(result,
            updateToggleStates(cx,
              updateSettings(cx, ds, [websiteBlockEnabled |-> enabled]),
              [websiteBlock |-> enabled]),
            "POLICY_ERROR")
     ELSE Finish(result, ds, "POLICY_ERROR")

toggleWebsiteBlock(cx, auth, be, ds, enabled) ==
  IF ~auth THEN Out(Machine(be), ds, NoResult, NotAuthenticated)
  ELSE LET result == applyPolicy(cx, Machine(be), "browser",
                       [NoSettings EXCEPT !.blockAllWebsites = JsBool(enabled)])
       IN IF result.r.success
          THEN Finish(result,
                 updateToggleStates(cx,
                   updateSettings(cx, ds, [websiteBlockEnabled |-> enabled]),
                   [websiteBlock |-> enabled]),
                 "POLICY_ERROR")
          ELSE Finish(result, ds, "POLICY_ERROR")

toggleWhitelist(cx, auth, be, ds, enabled) ==
  IF ~auth THEN Out(Machine(be), ds, NoResult, NotAuthenticated)
  ELSE LET domains == ds.settings.whitelistedDomains
           result == applyPolicy(cx, Machine(be), "whitelist",
                       [NoSettings EXCEPT !.enabled = JsBool(enabled),
                                          !.domains = JsArray(domains)])
       IN IF result.r.success
          THEN Finish(result,
                 updateToggleStates(cx,
                   updateSettings(cx, ds, [whitelistEnabled |-> enabled]),
                   [whitelist |-> enabled]),
                 "POLICY_ERROR")
          ELSE Finish(result, ds, "POLICY_ERROR")

\* policy:addDomain appending to the stored list without looking for the
\* domain in it
ipcAddDomainAlways(cx, auth, be, ds, domain) ==
  IF ~auth THEN Out(Machine(be), ds, NoResult, NotAuthenticated)
  ELSE LET result == applyPolicy(cx, Machine(be), "domain",
                       [NoSettings EXCEPT !.action = "add",
                                          !.domain = JsString(domain)])
           domains == ds.settings.whitelistedDomains
       IN IF result.r.success
          THEN Finish(result,
                 updateSettings(cx, ds, [whitelistedDomains |-> Append(domains, domain)]),
                 "POLICY_ERROR")
          ELSE Finish(result, ds, "POLICY_ERROR")

ipcAddDomain(cx, auth, be, ds, domain) ==
  IF ~auth THEN Out(Machine(be), ds, NoResult, NotAuthenticated)
  ELSE LET result == applyPolicy(cx, Machine(be), "domain",
                       [NoSettings EXCEPT !.action = "add",
                                          !.domain = JsString(domain)])
           domains == ds.settings.whitelistedDomains
       IN IF result.r.success /\ ~Includes(domains, domain)
          THEN Finish(result,
                 updateSettings(cx, ds, [whitelistedDomains |-> Append(domains, domain)]),
                 "POLICY_ERROR")
          ELSE Finish(result, ds, "POLICY_ERROR")

ipcRemoveDomain(cx, auth, be, ds, domain) ==
  IF ~auth THEN Out(Machine(be), ds, NoResult, NotAuthenticated)
  ELSE LET result == applyPolicy(cx, Machine(be), "domain",
                       [NoSettings EXCEPT !.action = "remove",
                                          !.domain = JsString(domain)])
           updatedDomains == SelectSeq(ds.settings.whitelistedDomains,
                                       LAMBDA d : d # domain)
       IN IF result.r.success
          THEN Finish(result,
                 updateSettings(cx, ds, [whitelistedDomains |-> updatedDomains]),
                 "POLICY_ERROR")
          ELSE Finish(result, ds, "POLICY_ERROR")

ipcSyncPolicyStates(cx, auth, be, ds) ==
  IF ~auth THEN Out(Machine(be), ds, NoResult, NotAuthenticated)
  ELSE LET result == syncPolicyStates(cx, Machine(be))
       IN IF result.r.success
          THEN Finish(result, updateToggleStates(cx, ds, result.r.states), "SYNC_ERROR")
          ELSE Finish(result, ds, "SYNC_ERROR")

\* policy:resetAllPolicies leaving the stored domain list as it is
ipcResetAllPoliciesKeepList(cx, auth, be, ds) ==
  IF ~auth THEN Out(Machine(be), ds, NoResult, NotAuthenticated)
  ELSE LET result == resetAllPolicies(cx, Machine(be))
       IN IF result.r.success
          THEN Finish(result,
                 updateToggleStates(cx,
                   updateSettings(cx, ds,
                     [driveBlockEnabled |-> FALSE, websiteBlockEnabled |-> FALSE,
                      whitelistEnabled |-> FALSE]),
                   [driveBlock |-> FALSE, websiteBlock |-> FALSE,
                    whitelist |-> FALSE, lastSynced |-> cx.t]),
                 "RESET_ERROR")
          ELSE Finish(result, ds, "RESET_ERROR")

ipcResetAllPolicies(cx, auth, be, ds) ==
  IF ~auth THEN Out(Machine(be), ds, NoResult, NotAuthenticated)
  ELSE LET result == resetAllPolicies(cx, Machine(be))
       IN IF result.r.success
          THEN Finish(result,
                 updateToggleStates(cx,
                   updateSettings(cx, ds,
                     [driveBlockEnabled |-> FALSE, websiteBlockEnabled |-> FALSE,
                      whitelistEnabled |-> FALSE, whitelistedDomains |-> <<>>]),
                   [driveBlock |-> FALSE, websiteBlock |-> FALSE,
                    whitelist |-> FALSE, lastSynced |-> cx.t]),
                 "RESET_ERROR")
          ELSE Finish(result, ds, "RESET_ERROR")

\* settings:getStatus, continuing the command count of the caller
ipcGetStatus(cx, auth, m, ds) ==
  IF ~auth THEN Out(m, ds, NoResult, NotAuthenticated)
  ELSE LET policyStatus == getCurrentPolicyStatus(cx, m)
       IN Out(policyStatus.m, ds, policyStatus.r,
              [Result(TRUE, NoError, "") EXCEPT !.policies = policyStatus.r.policies])

\* the list get-blocked-domains returns when website blocking is on: ['*']
AllWebsites == << <<"*">> >>

\* policy:getDomains and policy:getWhitelistedDomains have the same body
ipcGetDomains(auth, ds) ==
  IF ~auth THEN NotAuthenticated
  ELSE [Result(TRUE, NoError, "") EXCEPT !.domains = ds.settings.whitelistedDomains]

ipcGetWhitelistedDomains(auth, ds) ==
  IF ~auth THEN NotAuthenticated
  ELSE [Result(TRUE, NoError, "") EXCEPT !.domains = ds.settings.whitelistedDomains]

\* policy:getBlockedDomains answering from the toggle states
ipcGetBlockedDomainsToggle(auth, ds) ==
  IF ~auth THEN NotAuthenticated
  ELSE IF ds.toggleStates.websiteBlock
  THEN [Result(TRUE, NoError, "All websites are blocked") EXCEPT !.domains = AllWebsites]
  ELSE [Result(TRUE, NoError, "No websites are blocked") EXCEPT !.domains = <<>>]

ipcGetBlockedDomains(auth, ds) ==
  IF ~auth THEN NotAuthenticated
  ELSE IF ds.settings.websiteBlockEnabled
  THEN [Result(TRUE, NoError, "All websites are blocked") EXCEPT !.domains = AllWebsites]
  ELSE [Result(TRUE, NoError, "No websites are blocked") EXCEPT !.domains = <<>>]

\* settings:updateSettings
ipcUpdateSettings(cx, auth, be, ds, partial) ==
  IF ~auth THEN Out(Machine(be), ds, NoResult, NotAuthenticated)
  ELSE LET ds2 == updateSettings(cx, ds, partial)
       IN Out(Machine(be), ds2, NoResult,
              IF ds2.threw THEN Caught("SETTINGS_ERROR")
              ELSE Result(TRUE, NoError, ""))

\* ------------------------------------------------------------------- state
VARIABLES
  authenticated,  \* AuthManager.authenticated
  backend,        \* the registry: drive flag and the browsers' policy keys
  settings,       \* DataStore data.settings
  toggleStates,   \* DataStore data.toggleStates
  ui,             \* the renderer's three toggle switches (.checked)
  failures,       \* failed backend commands and file writes so far
  credentials,    \* DataStore data.credentials
  developerKey,   \* DataStore data.developerKey, decrypted
  last,           \* the call whose response is in flight: operation,
                  \* arguments, what it did, results (NoCall when none is)
  tasks           \* the ipcMain handlers that are suspended at an await:
                  \* request, position, local variables (SpecAsync)

vars == <<authenticated, backend, settings, toggleStates, ui, failures,
          credentials, developerKey, last, tasks>>

\* resetAllPolicies makes the most privilege checks of any call: its own and
\* one in each of its three steps
MaxChecks == 4

Times == 1..MaxTime

RECURSIVE FailSets(_, _)
\* the sets of at most b ordinals out of 1..n
FailSets(n, b) ==
  IF b <= 0 THEN {{}}
  ELSE LET S == FailSets(n, b - 1)
       IN S \cup { F \cup {x} : F \in S, x \in 1..n }

\* domain lists an operation may be called with: up to n distinct domains,
\* in the order of DomainPool
ListsUpTo(n) ==
  LET idx == { i \in 1..Len(DomainPool) : DomainPool[i] \in Domains }
      pick(S) == [k \in 1..Cardinality(S) |->
                   DomainPool[CHOOSE i \in S : Cardinality({ x \in S : x < i }) = k - 1]]
  IN { pick(S) : S \in { T \in SUBSET idx : Cardinality(T) <= n } }
DomainLists == ListsUpTo(MaxList)

\* usernames and passwords a client may send: the default password, two
\* that pass validatePasswordStrength ("Passw0rd", "Secret42") and, as new
\* passwords only, those that fail one test each: no upper-case letter, no
\* lower-case letter, no digit, too short, empty, too long
Usernames == {"admin", "guest"}
AdminPassword == <<"a","d","m","i","n">>
KnownPasswords ==
  { AdminPassword,
    <<"P","a","s","s","w","0","r","d">>,
    <<"S","e","c","r","e","t","4","2">> }
Passwords ==
  KnownPasswords \cup
  { <<"p","a","s","s","w","o","r","d","1">>,
    <<"P","A","S","S","W","O","R","D","1">>,
    <<"P","a","s","s","w","o","r","d">>,
    <<"P","w","1">>,
    <<>>,
    [i \in 1..(MaxPassword + 1) |-> IF i = 1 THEN "A" ELSE IF i = 2 THEN "a" ELSE "1"] }
Answers == { <<"r","e","x">>, <<"t","o","m">> }
Keys == {"key0", "key1"}
NoData == [oldPassword |-> <<>>, answer |-> <<>>, key |-> "", newPassword |-> <<>>]

\* a handler slot: the request (op, domain), the await it is suspended at
\* (pc), the target and the command it is at (i, k), its updatedDomains
\* (list), whether every target so far succeeded (ok) and, once it has
\* returned, its result
MaxTasks == 2
NoTask == [op |-> "none", domain |-> <<>>, pc |-> "idle", i |-> 0, k |-> 0,
           list |-> <<>>, ok |-> TRUE, success |-> FALSE]
NoTasks == [t \in 1..MaxTasks |-> NoTask]

NoCall == [op |-> "none", method |-> "", data |-> NoData, enabled |-> FALSE, domain |-> <<>>, domains |-> <<>>,
           policyType |-> "", settings |-> NoSettings,
           admin |-> FALSE, noPriv |-> FALSE, held |-> FALSE, fails |-> {},
           pm |-> NoResult, r |-> NoResult, log |-> <<>>, calls |-> <<>>,
           cmds |-> 0, checks |-> 0, repeat |-> FALSE, saves |-> 0,
           partial |-> <<>>, t |-> 0]

Init ==
  /\ authenticated = FALSE
  /\ backend = DefaultBackend
  /\ settings = DefaultSettings
  /\ toggleStates = DefaultToggleStates
  /\ ui = [driveBlock |-> FALSE, websiteBlock |-> FALSE, whitelist |-> FALSE]
  /\ failures = 0
  /\ credentials = DefaultCredentials
  /\ developerKey = DefaultDeveloperKey
  /\ last = NoCall
  /\ tasks = NoTasks

\* the failure choices of a call are those that take effect in it: every
\* chosen ordinal is the ordinal of a privilege check, a command or a file
\* write the call made, and a message is chosen only when a drive command
\* threw
Effective(cx, m, saves) ==
  /\ cx.flipAt <= m.k
  /\ \A x \in cx.fails : x <= m.n
  /\ \A x \in cx.saveFails : x <= saves
  /\ (cx.msg # {}) => \E j \in 1..Len(m.log) :
                         m.log[j].target = "drive" /\ ~m.log[j].ok
  /\ failures + Cardinality(cx.fails) + Cardinality(cx.saveFails) <= MaxFailures

\* commands throw in at most one call of a run, at most MaxFailures of them
Budget == IF failures = 0 THEN MaxFailures ELSE 0

\* contexts of a call that makes at most n backend commands and s file writes
Contexts(flips, n, msgs, s, times) ==
  LET thrown == { p \in FailSets(n, Budget) \X FailSets(s, Budget) :
                    Cardinality(p[1]) + Cardinality(p[2]) <= Budget }
      with(p) == { Context(isAdmin, f, p[1], msg, p[2], t) :
                     isAdmin \in BOOLEAN, f \in flips,
                     msg \in IF p[1] = {} THEN msgs \cap {{}} ELSE msgs,
                     t \in times }
  IN UNION { with(p) : p \in thrown }

\* the application is observed at one clock reading, with one error message,
\* with no privilege change in the middle of a request and with file writes
\* that succeed
AppContexts(n, s) == Contexts({0}, n, {{}}, 0, {MaxTime})

\* what is kept of a result returned over IPC: not the per-target and
\* per-step lists
Brief(r) == [success |-> r.success, error |-> r.error, status |-> r.status,
             states |-> r.states]

Call(op, cx, m) ==
  [NoCall EXCEPT !.op = op, !.admin = cx.admin,
                 !.noPriv = (~cx.admin /\ cx.flipAt = 0),
                 !.held = (cx.admin /\ cx.flipAt = 0), !.fails = cx.fails,
                 !.log = m.log, !.calls = m.calls, !.cmds = m.n, !.checks = m.k]

\* ------------------------------------------------ the application (Spec)
\* the renderer awaits the response of a request before it sends the next
Idle == last.op = "none"

\* auth:login: AuthManager.authenticate sets authenticated only when the
\* username matches and bcrypt.compare accepts the password
Login ==
  /\ Idle
  /\ \E username \in Usernames, password \in KnownPasswords :
       LET result == authenticate(credentials, username, password)
       IN /\ authenticated' = IF result.success THEN TRUE ELSE authenticated
          /\ last' = [NoCall EXCEPT !.op = "login", !.r = Brief(result)]
       /\ UNCHANGED <<backend, settings, toggleStates, ui, failures,
               credentials, developerKey, tasks>>

Logout ==
  /\ Idle
  /\ authenticated' = FALSE
  /\ last' = [NoCall EXCEPT !.op = "logout", !.r = Brief(Result(TRUE, NoError, ""))]
  /\ UNCHANGED <<backend, settings, toggleStates, ui, failures,
               credentials, developerKey, tasks>>

\* the state when a handler has returned `out`: its response is in flight
Commit(call, cx, out) ==
  /\ Idle
  /\ Effective(cx, out.m, out.ds.saves)
  /\ backend' = out.m.be
  /\ settings' = out.ds.settings
  /\ toggleStates' = out.ds.toggleStates
  /\ failures' = failures + Cardinality(cx.fails) + Cardinality(cx.saveFails)
  /\ last' = [call EXCEPT !.pm = Brief(out.pm), !.r = Brief(out.r),
                          !.log = <<>>, !.calls = <<>>, !.checks = 0]
  /\ UNCHANGED <<authenticated, ui, credentials, developerKey, tasks>>

HandleDriveBlockToggle ==
  /\ Idle
  /\ \E enabled \in BOOLEAN : \E cx \in AppContexts(1, 2) :
       LET out == toggleDriveBlock(cx, authenticated, backend,
                                   Store(settings, toggleStates), enabled)
       IN Commit([Call("toggleDriveBlock", cx, out.m) EXCEPT !.enabled = enabled],
                 cx, out)

HandleWebsiteBlockToggle ==
  /\ Idle
  /\ \E enabled \in BOOLEAN : \E cx \in AppContexts(NB, 2) :
       LET out == toggleWebsiteBlock(cx, authenticated, backend,
                                     Store(settings, toggleStates), enabled)
       IN Commit([Call("toggleWebsiteBlock", cx, out.m) EXCEPT !.enabled = enabled],
                 cx, out)

HandleWhitelistToggle ==
  /\ Idle
  /\ \E enabled \in BOOLEAN :
       \E cx \in AppContexts(NB * (2 + Len(settings.whitelistedDomains)), 2) :
         LET out == toggleWhitelist(cx, authenticated, backend,
                                    Store(settings, toggleStates), enabled)
         IN Commit([Call("toggleWhitelist", cx, out.m) EXCEPT !.enabled = enabled],
                   cx, out)

\* the longest list in the backend or the store
ListRoom ==
  /\ \A i \in 1..NB : Len(backend.br[i].allow) < MaxList
  /\ Len(settings.whitelistedDomains) < MaxList

HandleAddDomain ==
  /\ Idle
  /\ ListRoom
  /\ \E domain \in DomainsOf(AppDomains) :
       \E cx \in AppContexts(1 + NB * (3 + Len(backend.br[1].allow)), 1) :
         LET out == ipcAddDomain(cx, authenticated, backend,
                                 Store(settings, toggleStates), domain)
         IN Commit([Call("addDomain", cx, out.m) EXCEPT !.domain = domain],
                   cx, out)

HandleRemoveDomain ==
  /\ Idle
  /\ \E domain \in DomainsOf(AppDomains) :
       \E cx \in AppContexts(1 + NB * (2 + Len(backend.br[1].allow)), 1) :
         LET out == ipcRemoveDomain(cx, authenticated, backend,
                                    Store(settings, toggleStates), domain)
         IN Commit([Call("removeDomain", cx, out.m) EXCEPT !.domain = domain],
                   cx, out)

\* loadCurrentStatus, up to its await of policy:syncPolicyStates
LoadCurrentStatus ==
  /\ Idle
  /\ \E cx \in AppContexts(2, 1) :
       LET syncResult == ipcSyncPolicyStates(cx, authenticated, backend,
                                             Store(settings, toggleStates))
       IN Commit(Call("syncPolicyStates", cx, syncResult.m), cx, syncResult)

HandleResetAllPolicies ==
  /\ Idle
  /\ \E cx \in AppContexts(1 + 2 * NB, 2) :
       LET out == ipcResetAllPolicies(cx, authenticated, backend,
                                      Store(settings, toggleStates))
       IN Commit(Call("resetAllPolicies", cx, out.m), cx, out)

\* a toggle handler of the renderer runs on a change event, with the switch
\* already at `enabled`, and puts it back when the result is not a success; a
\* request that is no change of the switch leaves the switch alone
Switch(checked, enabled, success) ==
  IF enabled # checked THEN (IF success THEN enabled ELSE ~enabled) ELSE checked

Flags(s) == [driveBlock |-> s.driveBlock, websiteBlock |-> s.websiteBlock,
             whitelist |-> s.whitelist]

\* loadCurrentStatus after a failed sync: the switches are set from the
\* toggleStates that settings:getStatus returns; the reads that getStatus
\* makes of the backend do not enter its result
FallbackStatus ==
  LET result == ipcGetStatus(Context(TRUE, 0, {}, {}, {}, MaxTime), authenticated,
                             Machine(backend), Store(settings, toggleStates))
  IN IF result.r.success THEN Flags(result.ds.toggleStates) ELSE ui

\* the renderer's continuation when the response arrives
Render ==
  /\ ~Idle
  /\ ui' = CASE last.op = "toggleDriveBlock" ->
                  [ui EXCEPT !.driveBlock = Switch(@, last.enabled, last.r.success)]
             [] last.op = "toggleWebsiteBlock" ->
                  [ui EXCEPT !.websiteBlock = Switch(@, last.enabled, last.r.success)]
             [] last.op = "toggleWhitelist" ->
                  [ui EXCEPT !.whitelist = Switch(@, last.enabled, last.r.success)]
             [] last.op = "syncPolicyStates" ->
                  IF last.r.success THEN Flags(last.r.states) ELSE FallbackStatus
             [] last.op = "resetAllPolicies" ->
                  IF last.r.success
                  THEN [driveBlock |-> FALSE, websiteBlock |-> FALSE,
                        whitelist |-> FALSE]
                  ELSE ui
             [] OTHER -> ui
  /\ last' = NoCall
  /\ UNCHANGED <<authenticated, backend, settings, toggleStates, failures,
               credentials, developerKey, tasks>>

Next ==
  \/ Login
  \/ Logout
  \/ HandleDriveBlockToggle
  \/ HandleWebsiteBlockToggle
  \/ HandleWhitelistToggle
  \/ HandleAddDomain
  \/ HandleRemoveDomain
  \/ LoadCurrentStatus
  \/ HandleResetAllPolicies
  \/ Render

Spec == Init /\ [][Next]_vars

\* --------------------------------------------- the controllers (SpecApi)
\* the public operations of DrivePolicy, BrowserPolicy and PolicyManager,
\* called one at a time on the evolving backend; the caller awaits each
\* result before the next call
ApiContexts(flips, n, msgs, times) == Contexts(flips, n, msgs, 0, times)

\* the state when a controller operation has returned res
ApiDone(call, cx, res) ==
  /\ Effective(cx, res.m, 0)
  /\ backend' = res.m.be
  /\ failures' = failures + Cardinality(cx.fails)
  /\ last' = [call EXCEPT !.r = res.r]
  /\ UNCHANGED <<authenticated, settings, toggleStates, ui,
               credentials, developerKey, tasks>>

ApiCommit(call, cx, res) == Idle /\ ApiDone(call, cx, res)

ApiBlockWriteAccess ==
  /\ Idle
  /\ \E cx \in ApiContexts({0}, 1, ErrMsgs, {1}) :
       LET res == blockWriteAccess(cx, Machine(backend))
       IN ApiCommit(Call("blockWriteAccess", cx, res.m), cx, res)

ApiAllowWriteAccess ==
  /\ Idle
  /\ \E cx \in ApiContexts({0}, 1, ErrMsgs, {1}) :
       LET res == allowWriteAccess(cx, Machine(backend))
       IN ApiCommit(Call("allowWriteAccess", cx, res.m), cx, res)

ApiGetWriteAccessStatus ==
  /\ Idle
  /\ \E cx \in ApiContexts({0}, 1, ErrMsgs, {1}) :
       LET res == getWriteAccessStatus(cx, Machine(backend))
       IN ApiCommit(Call("getWriteAccessStatus", cx, res.m), cx, res)

ApiBlockAllWebsites ==
  /\ Idle
  /\ \E cx \in ApiContexts({0}, NB, {{}}, {1}) :
       LET res == blockAllWebsites(cx, Machine(backend))
       IN ApiCommit(Call("blockAllWebsites", cx, res.m), cx, res)

ApiUnblockAllWebsites ==
  /\ Idle
  /\ \E cx \in ApiContexts({0}, NB, {{}}, {1}) :
       LET res == unblockAllWebsites(cx, Machine(backend))
       IN ApiCommit(Call("unblockAllWebsites", cx, res.m), cx, res)

ApiEnableWhitelist ==
  /\ Idle
  /\ \E domains \in DomainLists :
       \E cx \in ApiContexts({0}, NB * (2 + Len(domains)), {{}}, {1}) :
         LET res == enableWhitelist(cx, Machine(backend), domains)
         IN ApiCommit([Call("enableWhitelist", cx, res.m) EXCEPT !.domains = domains],
                      cx, res)

ApiDisableWhitelist ==
  /\ Idle
  /\ \E cx \in ApiContexts({0}, NB, {{}}, {1}) :
       LET res == disableWhitelist(cx, Machine(backend))
       IN ApiCommit(Call("disableWhitelist", cx, res.m), cx, res)

ApiGetDomainList ==
  /\ Idle
  /\ \E cx \in ApiContexts({0}, 1, {{}}, {1}) :
       LET res == getDomainList(cx, Machine(backend))
       IN ApiCommit(Call("getDomainList", cx, res.m), cx, res)

\* the designated target's list can take one more entry
ApiListRoom == Len(backend.br[1].allow) < MaxList

ApiAddDomain ==
  /\ Idle
  /\ ApiListRoom
  /\ \E domain \in Domains :
       \E cx \in ApiContexts({0, 2}, 1 + NB * (3 + Len(backend.br[1].allow)),
                             {{}}, {1}) :
         LET res == addDomain(cx, Machine(backend), domain)
         IN ApiCommit([Call("addDomain", cx, res.m) EXCEPT !.domain = domain],
                      cx, res)

\* the caller takes the result of addDomain and calls addDomain again with
\* the same domain
ApiAddDomainAgain ==
  /\ last.op = "addDomain"
  /\ ~last.repeat
  /\ \E cx \in ApiContexts({0, 2}, 1 + NB * (3 + Len(backend.br[1].allow)),
                             {{}}, {1}) :
       LET res == addDomain(cx, Machine(backend), last.domain)
       IN ApiDone([Call("addDomain", cx, res.m) EXCEPT !.domain = last.domain,
                                                        !.repeat = TRUE],
                  cx, res)

ApiRemoveDomain ==
  /\ Idle
  /\ \E domain \in Domains :
       \E cx \in ApiContexts({0, 2}, 1 + NB * (2 + Len(backend.br[1].allow)),
                             {{}}, {1}) :
         LET res == removeDomain(cx, Machine(backend), domain)
         IN ApiCommit([Call("removeDomain", cx, res.m) EXCEPT !.domain = domain],
                      cx, res)

\* arguments of applyPolicy: the four policy types and one that is none of
\* them, each with well-formed and malformed settings
PolicyTypes == {"drive", "browser", "whitelist", "domain", "network"}
JsBools == {JsBool(TRUE), JsBool(FALSE), NotBool}
ApiSettings(policyType) ==
  CASE policyType = "drive" ->
         { [NoSettings EXCEPT !.blockWriteAccess = b] : b \in JsBools }
    [] policyType = "browser" ->
         { [NoSettings EXCEPT !.blockAllWebsites = b] : b \in JsBools }
    [] policyType = "whitelist" ->
         { [NoSettings EXCEPT !.enabled = b] : b \in JsBools }
         \cup { [NoSettings EXCEPT !.enabled = JsBool(TRUE), !.domains = JsArray(l)] :
                  l \in ListsUpTo(1) }
    [] policyType = "domain" ->
         { [NoSettings EXCEPT !.action = a, !.domain = d] :
             a \in {"add", "remove"},
             d \in {NotString, JsString(<<>>)} \cup
                   { JsString(x) : x \in IF ApiListRoom THEN Domains ELSE {} } }
         \cup { [NoSettings EXCEPT !.action = "toggle",
                                   !.domain = JsString(DomainPool[1])] }
    [] OTHER -> {NoSettings}

\* the privilege checks and backend commands applyPolicy can make
ApiChecks(policyType) ==
  CASE policyType = "domain" -> {0, 2, 3}
    [] policyType = "network" -> {0}
    [] OTHER -> {0, 2}
ApiCommands(policyType, args) ==
  CASE policyType = "drive" -> 1
    [] policyType = "browser" -> NB
    [] policyType = "whitelist" -> NB * (2 + Len(args.domains.items))
    [] policyType = "domain" -> 1 + NB * (3 + Len(backend.br[1].allow))
    [] OTHER -> 0

ApiApplyPolicy ==
  /\ Idle
  /\ \E policyType \in PolicyTypes :
       \E args \in ApiSettings(policyType) :
         \E cx \in ApiContexts(ApiChecks(policyType),
                               ApiCommands(policyType, args),
                               IF policyType = "drive" THEN ErrMsgs ELSE {{}}, {1}) :
           LET res == applyPolicy(cx, Machine(backend), policyType, args)
           IN ApiCommit([Call("applyPolicy", cx, res.m)
                           EXCEPT !.policyType = policyType, !.settings = args],
                        cx, res)

ApiGetCurrentPolicyStatus ==
  /\ Idle
  /\ \E cx \in ApiContexts({0}, 2, ErrMsgs, {1}) :
       LET res == getCurrentPolicyStatus(cx, Machine(backend))
       IN ApiCommit(Call("getCurrentPolicyStatus", cx, res.m), cx, res)

ApiSyncPolicyStates ==
  /\ Idle
  /\ \E cx \in ApiContexts({0}, 2, {{}}, Times) :
       LET res == syncPolicyStates(cx, Machine(backend))
       IN ApiCommit(Call("syncPolicyStates", cx, res.m), cx, res)

ApiResetAllPolicies ==
  /\ Idle
  /\ \E cx \in ApiContexts(0..MaxChecks \ {1}, 1 + 2 * NB, ErrMsgs, {1}) :
       LET res == resetAllPolicies(cx, Machine(backend))
       IN ApiCommit(Call("resetAllPolicies", cx, res.m), cx, res)

\* the mutating operations of the three controllers
Mutating == {"blockWriteAccess", "allowWriteAccess", "blockAllWebsites",
             "unblockAllWebsites", "enableWhitelist", "disableWhitelist",
             "addDomain", "removeDomain", "applyPolicy", "resetAllPolicies"}

\* an operation that keeps the outcome of the privilege check of the call
\* before and answers from it
InvokeCached(call, cx, m) ==
  [m |-> [m EXCEPT !.calls = <<call.op>>], r |-> call.r]

\* the operation of `call` with its arguments, called in context cx
Invoke(call, cx, m) ==
  CASE call.op = "blockWriteAccess"   -> blockWriteAccess(cx, m)
    [] call.op = "allowWriteAccess"   -> allowWriteAccess(cx, m)
    [] call.op = "blockAllWebsites"   -> blockAllWebsites(cx, m)
    [] call.op = "unblockAllWebsites" -> unblockAllWebsites(cx, m)
    [] call.op = "enableWhitelist"    -> enableWhitelist(cx, m, call.domains)
    [] call.op = "disableWhitelist"   -> disableWhitelist(cx, m)
    [] call.op = "addDomain"          -> addDomain(cx, m, call.domain)
    [] call.op = "removeDomain"       -> removeDomain(cx, m, call.domain)
    [] call.op = "applyPolicy"        ->
         applyPolicy(cx, m, call.policyType, call.settings)
    [] call.op = "resetAllPolicies"   -> resetAllPolicies(cx, m)

\* a mutating call was refused for want of privileges; the application is
\* restarted as administrator (requestElevation) and the caller makes the
\* same call again
ApiRetryElevated ==
  /\ last.op \in Mutating
  /\ last.noPriv
  /\ ~last.repeat
  /\ last.r.error.code = "INSUFFICIENT_PRIVILEGES"
  /\ \E cx \in { c \in ApiContexts({0}, 1 + NB * (2 + MaxList), ErrMsgs, {1}) :
                    c.admin } :
       LET res == Invoke(last, cx, Machine(backend))
       IN ApiDone([Call(last.op, cx, res.m)
                     EXCEPT !.domain = last.domain, !.domains = last.domains,
                            !.policyType = last.policyType,
                            !.settings = last.settings, !.repeat = TRUE],
                  cx, res)

\* unblockAllWebsites or disableWhitelist has returned success and the
\* caller makes the same call once more
ApiRemoveAgain ==
  /\ last.op \in {"unblockAllWebsites", "disableWhitelist"}
  /\ ~last.repeat
  /\ last.r.success
  /\ \E cx \in ApiContexts({0}, NB, {{}}, {1}) :
       LET res == Invoke(last, cx, Machine(backend))
       IN ApiDone([Call(last.op, cx, res.m) EXCEPT !.repeat = TRUE], cx, res)

\* the caller takes the result
ApiReturn ==
  /\ ~Idle
  /\ last' = NoCall
  /\ UNCHANGED <<authenticated, backend, settings, toggleStates, ui, failures,
               credentials, developerKey, tasks>>

NextApi ==
  \/ ApiBlockWriteAccess
  \/ ApiAllowWriteAccess
  \/ ApiGetWriteAccessStatus
  \/ ApiBlockAllWebsites
  \/ ApiUnblockAllWebsites
  \/ ApiEnableWhitelist
  \/ ApiDisableWhitelist
  \/ ApiGetDomainList
  \/ ApiAddDomain
  \/ ApiAddDomainAgain
  \/ ApiRemoveDomain
  \/ ApiApplyPolicy
  \/ ApiGetCurrentPolicyStatus
  \/ ApiSyncPolicyStates
  \/ ApiResetAllPolicies
  \/ ApiRetryElevated
  \/ ApiRemoveAgain
  \/ ApiReturn

SpecApi == Init /\ [][NextApi]_vars

\* ------------------------------------ the domain list (SpecWhitelist)
\* sequences of addDomain and removeDomain calls that all return success,
\* from the empty whitelist, and the reads of the list in between: a call
\* that does not return success ends the sequence
ReturnSuccess ==
  /\ ~Idle
  /\ last.r.success
  /\ last' = NoCall
  /\ UNCHANGED <<authenticated, backend, settings, toggleStates, ui, failures,
               credentials, developerKey, tasks>>

NextWhitelist ==
  \/ ApiAddDomain
  \/ ApiRemoveDomain
  \/ ApiGetDomainList
  \/ ReturnSuccess

SpecWhitelist == Init /\ [][NextWhitelist]_vars

\* ------------------------------------------ the data store (SpecStore)
\* the update operations of DataStore called directly, with partial objects
\* of every shape; a file write may throw
SettingsPartials ==
  {<<>>, [lastUpdated |-> 0], [driveBlockEnabled |-> TRUE],
   [websiteBlockEnabled |-> TRUE, whitelistEnabled |-> TRUE]}
  \cup { [whitelistedDomains |-> <<d>>] : d \in DomainsOf(AppDomains) }

TogglePartials ==
  {<<>>, [driveBlock |-> TRUE], [websiteBlock |-> TRUE, whitelist |-> FALSE],
   [lastSynced |-> MaxTime]}

CredentialPartials == { [passwordHash |-> Hash(<<"P","w","1">>, 1)] }

StoreContexts == Contexts({0}, 0, {{}}, 1, {MaxTime})

\* the state when an update operation has returned or thrown
StoreDone(op, partial, cx, ds) ==
  /\ Effective(cx, Machine(backend), ds.saves)
  /\ credentials' = ds.credentials
  /\ developerKey' = ds.developerKey
  /\ settings' = ds.settings
  /\ toggleStates' = ds.toggleStates
  /\ failures' = failures + Cardinality(cx.saveFails)
  /\ last' = [NoCall EXCEPT !.op = op, !.partial = partial, !.saves = ds.saves,
                            !.r = Result(~ds.threw, NoError, ""), !.t = cx.t]
  /\ UNCHANGED <<authenticated, backend, ui, tasks>>

StoreUpdateSettings ==
  /\ Idle
  /\ \E partial \in SettingsPartials : \E cx \in StoreContexts :
       StoreDone("updateSettings", partial, cx,
                 updateSettings(cx, Data(credentials, developerKey, settings,
                                         toggleStates), partial))

StoreUpdateToggleStates ==
  /\ Idle
  /\ \E partial \in TogglePartials : \E cx \in StoreContexts :
       StoreDone("updateToggleStates", partial, cx,
                 updateToggleStates(cx, Data(credentials, developerKey, settings,
                                             toggleStates), partial))

StoreUpdateCredentials ==
  /\ Idle
  /\ \E partial \in CredentialPartials : \E cx \in StoreContexts :
       StoreDone("updateCredentials", partial, cx,
                 updateCredentials(cx, Data(credentials, developerKey, settings,
                                            toggleStates), partial))

StoreUpdateDeveloperKey ==
  /\ Idle
  /\ \E cx \in StoreContexts : \E iv \in Salts :
       StoreDone("updateDeveloperKey", <<>>, cx,
                 updateDeveloperKey(cx, Data(credentials, developerKey, settings,
                                             toggleStates), "key1", iv))

\* the caller goes on after the update
StoreReturn ==
  /\ ~Idle
  /\ last' = NoCall
  /\ UNCHANGED <<authenticated, backend, settings, toggleStates, ui, failures,
               credentials, developerKey, tasks>>

NextStore ==
  \/ StoreUpdateSettings
  \/ StoreUpdateToggleStates
  \/ StoreUpdateCredentials
  \/ StoreUpdateDeveloperKey
  \/ StoreReturn

SpecStore == Init /\ [][NextStore]_vars

\* ------------------------------------------- the IPC handlers (SpecIpc)
\* the handlers of main.js invoked one at a time by any client of the IPC
\* channel, in any order; backend commands and file writes may throw
IpcContexts(n, msgs, s) == Contexts({0}, n, msgs, s, {MaxTime})

\* what the client receives
Reply(r) == [success |-> r.success, error |-> r.error, status |-> r.status,
             states |-> r.states, domains |-> r.domains]

\* the state when a handler has returned `out`
IpcCommit(call, cx, out) ==
  /\ Effective(cx, out.m, out.ds.saves)
  /\ backend' = out.m.be
  /\ settings' = out.ds.settings
  /\ toggleStates' = out.ds.toggleStates
  /\ failures' = failures + Cardinality(cx.fails) + Cardinality(cx.saveFails)
  /\ last' = [call EXCEPT !.pm = Brief(out.pm), !.r = Reply(out.r),
                          !.log = <<>>, !.calls = <<>>, !.checks = 0,
                          !.saves = out.ds.saves]
  /\ UNCHANGED <<authenticated, ui, credentials, developerKey, tasks>>

\* the state when a handler that only reads the store has returned r
IpcRead(op, r) ==
  /\ last' = [NoCall EXCEPT !.op = op, !.r = Reply(r)]
  /\ UNCHANGED <<authenticated, backend, settings, toggleStates, ui, failures,
               credentials, developerKey, tasks>>

IpcToggleDriveBlock ==
  /\ Idle
  /\ \E enabled \in BOOLEAN : \E cx \in IpcContexts(1, ErrMsgs, 2) :
       \E out \in { toggleDriveBlock(cx, authenticated, backend,
                                       Store(settings, toggleStates), enabled) } :
          IpcCommit([Call("toggleDriveBlock", cx, out.m) EXCEPT !.enabled = enabled],
                    cx, out)

IpcToggleWebsiteBlock ==
  /\ Idle
  /\ \E enabled \in BOOLEAN : \E cx \in IpcContexts(NB, {{}}, 2) :
       \E out \in { toggleWebsiteBlock(cx, authenticated, backend,
                                         Store(settings, toggleStates), enabled) } :
          IpcCommit([Call("toggleWebsiteBlock", cx, out.m) EXCEPT !.enabled = enabled],
                    cx, out)

IpcToggleWhitelist ==
  /\ Idle
  /\ \E enabled \in BOOLEAN :
       \E cx \in IpcContexts(NB * (2 + Len(settings.whitelistedDomains)), {{}}, 2) :
         \E out \in { toggleWhitelist(cx, authenticated, backend,
                                        Store(settings, toggleStates), enabled) } :
            IpcCommit([Call("toggleWhitelist", cx, out.m) EXCEPT !.enabled = enabled],
                      cx, out)

IpcAddDomain ==
  /\ Idle
  /\ ListRoom
  /\ \E domain \in DomainsOf(AppDomains) :
       \E cx \in IpcContexts(1 + NB * (3 + Len(backend.br[1].allow)), {{}}, 1) :
         \E out \in { ipcAddDomain(cx, authenticated, backend,
                                     Store(settings, toggleStates), domain) } :
            IpcCommit([Call("addDomain", cx, out.m) EXCEPT !.domain = domain],
                      cx, out)

IpcRemoveDomain ==
  /\ Idle
  /\ \E domain \in DomainsOf(AppDomains) :
       \E cx \in IpcContexts(1 + NB * (2 + Len(backend.br[1].allow)), {{}}, 1) :
         \E out \in { ipcRemoveDomain(cx, authenticated, backend,
                                        Store(settings, toggleStates), domain) } :
            IpcCommit([Call("removeDomain", cx, out.m) EXCEPT !.domain = domain],
                      cx, out)

IpcGetDomains ==
  /\ Idle
  /\ IpcRead("getDomains", ipcGetDomains(authenticated, Store(settings, toggleStates)))

IpcGetWhitelistedDomains ==
  /\ Idle
  /\ IpcRead("getWhitelistedDomains",
             ipcGetWhitelistedDomains(authenticated, Store(settings, toggleStates)))

IpcGetBlockedDomains ==
  /\ Idle
  /\ IpcRead("getBlockedDomains",
             ipcGetBlockedDomains(authenticated, Store(settings, toggleStates)))

IpcGetStatus ==
  /\ Idle
  /\ \E cx \in IpcContexts(2, ErrMsgs, 0) :
       \E out \in { ipcGetStatus(cx, authenticated, Machine(backend),
                                   Store(settings, toggleStates)) } :
          IpcCommit(Call("getStatus", cx, out.m), cx, out)

\* the partial settings objects a client sends to settings:updateSettings
IpcPartials ==
  { [websiteBlockEnabled |-> TRUE],
    [driveBlockEnabled |-> FALSE, whitelistEnabled |-> TRUE] }

IpcUpdateSettings ==
  /\ Idle
  /\ \E partial \in IpcPartials : \E cx \in IpcContexts(0, {{}}, 1) :
       \E out \in { ipcUpdateSettings(cx, authenticated, backend,
                                        Store(settings, toggleStates), partial) } :
          IpcCommit(Call("updateSettings", cx, out.m), cx, out)

IpcSyncPolicyStates ==
  /\ Idle
  /\ \E cx \in IpcContexts(2, ErrMsgs, 1) :
       \E out \in { ipcSyncPolicyStates(cx, authenticated, backend,
                                          Store(settings, toggleStates)) } :
          IpcCommit(Call("syncPolicyStates", cx, out.m), cx, out)

IpcResetAllPolicies ==
  /\ Idle
  /\ \E cx \in IpcContexts(1 + 2 * NB, ErrMsgs, 2) :
       \E out \in { ipcResetAllPolicies(cx, authenticated, backend,
                                          Store(settings, toggleStates)) } :
          IpcCommit(Call("resetAllPolicies", cx, out.m), cx, out)

\* the client takes the response
IpcReturn ==
  /\ ~Idle
  /\ last' = NoCall
  /\ UNCHANGED <<authenticated, backend, settings, toggleStates, ui, failures,
               credentials, developerKey, tasks>>

NextIpc ==
  \/ Login
  \/ Logout
  \/ IpcToggleDriveBlock
  \/ IpcToggleWebsiteBlock
  \/ IpcToggleWhitelist
  \/ IpcAddDomain
  \/ IpcRemoveDomain
  \/ IpcGetDomains
  \/ IpcGetWhitelistedDomains
  \/ IpcGetBlockedDomains
  \/ IpcGetStatus
  \/ IpcUpdateSettings
  \/ IpcSyncPolicyStates
  \/ IpcResetAllPolicies
  \/ IpcReturn

SpecIpc == Init /\ [][NextIpc]_vars

\* ------------------------------------- accounts and passwords (SpecAuth)
Methods == {"old", "security", "developer", "email"}

\* the data object sent with a method
DataOf(method) ==
  CASE method = "old" ->
         { [NoData EXCEPT !.oldPassword = p, !.newPassword = n] :
             p \in KnownPasswords, n \in Passwords }
    [] method = "security" ->
         { [NoData EXCEPT !.answer = a, !.newPassword = n] :
             a \in Answers, n \in Passwords }
    [] method = "developer" ->
         { [NoData EXCEPT !.key = k, !.newPassword = n] :
             k \in Keys, n \in Passwords }
    [] OTHER -> { [NoData EXCEPT !.newPassword = n] : n \in Passwords }

\* the state when an operation on the account has returned `out`
AuthDone(call, cx, out) ==
  /\ Effective(cx, Machine(backend), out.ds.saves)
  /\ credentials' = out.ds.credentials
  /\ developerKey' = out.ds.developerKey
  /\ settings' = out.ds.settings
  /\ toggleStates' = out.ds.toggleStates
  /\ failures' = failures + Cardinality(cx.saveFails)
  /\ last' = [call EXCEPT !.saves = out.ds.saves, !.r = Reply(out.r), !.t = cx.t]
  /\ UNCHANGED <<authenticated, backend, ui, tasks>>

AuthChangePassword ==
  /\ Idle
  /\ \E method \in Methods : \E data \in DataOf(method) :
       \E salt \in Salts : \E cx \in StoreContexts :
         AuthDone([NoCall EXCEPT !.op = "changePassword", !.method = method,
                                 !.data = data],
                  cx,
                  ipcChangePassword(cx, authenticated,
                    Data(credentials, developerKey, settings, toggleStates),
                    method, data, salt))

AuthSetupSecurityQuestion ==
  /\ Idle
  /\ \E answer \in Answers : \E iv \in Salts, salt \in Salts :
       \E cx \in StoreContexts :
         AuthDone([NoCall EXCEPT !.op = "setupSecurityQuestion",
                                 !.data = [NoData EXCEPT !.answer = answer]],
                  cx,
                  ipcSetupSecurityQuestion(cx, authenticated,
                    Data(credentials, developerKey, settings, toggleStates),
                    "pet", answer, iv, salt))

\* PasswordManager.generateDeveloperKey: a fresh random key replaces the key
AuthGenerateDeveloperKey ==
  /\ Idle
  /\ developerKey = DefaultDeveloperKey
  /\ \E iv \in Salts : \E cx \in StoreContexts :
       LET stored == updateDeveloperKey(cx,
                       Data(credentials, developerKey, settings, toggleStates),
                       "key1", iv)
       IN AuthDone([NoCall EXCEPT !.op = "generateDeveloperKey"], cx,
                   Done(stored, IF stored.threw THEN Caught("KEY_GENERATION_ERROR")
                                ELSE Result(TRUE, NoError, "")))

NextAuth ==
  \/ Login
  \/ Logout
  \/ AuthChangePassword
  \/ AuthSetupSecurityQuestion
  \/ AuthGenerateDeveloperKey
  \/ IpcReturn

SpecAuth == Init /\ [][NextAuth]_vars

\* ------------------------------- the two domain lists (SpecLists)
\* the whitelist requests of an administrator with every valid and invalid
\* domain of the pool, on a backend whose commands and a store whose file
\* writes all succeed
ListContexts == Contexts({0}, 0, {{}}, 0, {MaxTime})

ListAddDomain ==
  /\ Idle
  /\ ListRoom
  /\ \E domain \in Domains : \E cx \in ListContexts :
       LET out == ipcAddDomain(cx, authenticated, backend,
                               Store(settings, toggleStates), domain)
       IN IpcCommit([Call("addDomain", cx, out.m) EXCEPT !.domain = domain],
                    cx, out)

ListRemoveDomain ==
  /\ Idle
  /\ \E domain \in Domains : \E cx \in ListContexts :
       LET out == ipcRemoveDomain(cx, authenticated, backend,
                                  Store(settings, toggleStates), domain)
       IN IpcCommit([Call("removeDomain", cx, out.m) EXCEPT !.domain = domain],
                    cx, out)

ListToggleWhitelist ==
  /\ Idle
  /\ \E enabled \in BOOLEAN : \E cx \in ListContexts :
       LET out == toggleWhitelist(cx, authenticated, backend,
                                  Store(settings, toggleStates), enabled)
       IN IpcCommit([Call("toggleWhitelist", cx, out.m) EXCEPT !.enabled = enabled],
                    cx, out)

NextLists ==
  \/ Login
  \/ Logout
  \/ ListAddDomain
  \/ ListRemoveDomain
  \/ ListToggleWhitelist
  \/ IpcGetDomains
  \/ IpcReturn

SpecLists == Init /\ [][NextLists]_vars

\* ---------------------------------- what is written (SpecGrammar)
\* the whitelist operations of BrowserPolicy called with every input of the
\* pool, the URL included, on a backend whose commands all succeed
PoolDomains == DomainsOf(Len(DomainPool))
PoolLists ==
  { <<d>> : d \in PoolDomains } \cup
  { pair \in PoolDomains \X PoolDomains : pair[1] # pair[2] }
GrammarContexts == ApiContexts({0}, 0, {{}}, {1})

GrammarEnableWhitelist ==
  /\ Idle
  /\ \E domains \in PoolLists : \E cx \in GrammarContexts :
       LET res == enableWhitelist(cx, Machine(backend), domains)
       IN ApiCommit([Call("enableWhitelist", cx, res.m) EXCEPT !.domains = domains],
                    cx, res)

GrammarAddDomain ==
  /\ Idle
  /\ ApiListRoom
  /\ \E domain \in PoolDomains : \E cx \in GrammarContexts :
       LET res == addDomain(cx, Machine(backend), domain)
       IN ApiCommit([Call("addDomain", cx, res.m) EXCEPT !.domain = domain],
                    cx, res)

GrammarRemoveDomain ==
  /\ Idle
  /\ \E domain \in PoolDomains : \E cx \in GrammarContexts :
       LET res == removeDomain(cx, Machine(backend), domain)
       IN ApiCommit([Call("removeDomain", cx, res.m) EXCEPT !.domain = domain],
                    cx, res)

NextGrammar ==
  \/ GrammarEnableWhitelist
  \/ GrammarAddDomain
  \/ GrammarRemoveDomain
  \/ ApiReturn

SpecGrammar == Init /\ [][NextGrammar]_vars

\* ------------------------------------- overlapping requests (SpecAsync)
\* ipcMain.handle runs each request in its own async handler; a handler
\* gives up control at every await, and the renderer does not wait for the
\* response of addDomain before it sends another request (handleAddDomain
\* leaves addDomainBtn enabled; handleResetAllPolicies disables only
\* confirmResetBtn). Each action below is the piece of a handler from the
\* completion of one command or file write to the await of the next; the
\* process is elevated and no command fails for a reason outside the
\* application. Requests are observed in rounds: at most MaxTasks of them
\* between two states in which no handler is suspended; the renderer sends
\* them once the response of login or logout has arrived.
AsyncContext == Context(TRUE, 0, {}, {}, {}, MaxTime)
InFlight(t) == tasks[t].pc \notin {"idle", "done"}
Round == \A t \in 1..MaxTasks : tasks[t].pc # "done"
Adding == Cardinality({ t \in 1..MaxTasks : tasks[t].op = "addDomain" /\ InFlight(t) })
AsyncStep(t, task) ==
  /\ tasks' = [tasks EXCEPT ![t] = task]
  /\ UNCHANGED <<authenticated, ui, failures, credentials, developerKey, last>>

\* policy:addDomain up to the await of the read command of getDomainList:
\* the authentication test, validateDomain, the privilege check
AsyncAddDomain(t) ==
  /\ Idle
  /\ tasks[t].pc = "idle"
  /\ Round
  /\ Len(backend.br[1].allow) + Adding < MaxList
  /\ Len(settings.whitelistedDomains) + Adding < MaxList
  /\ \E domain \in Domains :
       AsyncStep(t, [NoTask EXCEPT !.op = "addDomain", !.domain = domain,
                       !.pc = IF authenticated /\ validateDomain(domain)
                              THEN "read" ELSE "done"])
  /\ UNCHANGED <<backend, settings, toggleStates>>

\* the handler of policy:addDomain from the return of applyPolicy to its
\* next await: nothing more when the result is a failure; getSettings, and
\* when the domain is not in the list, push and updateSettings, which
\* assigns this.data.settings and awaits the file write
AfterApplyPolicy(task) ==
  LET domains == settings.whitelistedDomains
  IN IF ~task.ok THEN [task EXCEPT !.pc = "done", !.success = FALSE]
     ELSE IF Includes(domains, task.domain)
     THEN [task EXCEPT !.pc = "done", !.success = TRUE]
     ELSE [task EXCEPT !.pc = "saveSettings"]
AfterApplyPolicySettings(task) ==
  LET domains == settings.whitelistedDomains
  IN IF ~task.ok \/ Includes(domains, task.domain) THEN settings
     ELSE updateSettings(AsyncContext, Store(settings, toggleStates),
            [whitelistedDomains |-> Append(domains, task.domain)]).settings

\* getDomainList's command has run: addDomain looks for the domain in the
\* list it read and returns already_exists or calls
\* enableWhitelist(updatedDomains), which awaits its privilege check
AsyncGetDomainList(t) ==
  /\ tasks[t].pc = "read"
  /\ LET currentDomains == backend.br[1].allow
         exists == Includes(currentDomains, tasks[t].domain)
     IN /\ AsyncStep(t, IF exists THEN AfterApplyPolicy(tasks[t])
                        ELSE [tasks[t] EXCEPT !.pc = "enable", !.i = 1, !.k = 0,
                                !.list = Append(currentDomains, tasks[t].domain)])
        /\ settings' = IF exists THEN AfterApplyPolicySettings(tasks[t]) ELSE settings
  /\ UNCHANGED <<backend, toggleStates>>

\* one command of enableWhitelist's loop for target i: the block rule
\* (k = 0), the allowlist key (k = 1), value k - 1 of the allowlist.
\* Set-ItemProperty throws when the key it names is missing; the try block
\* of the target catches that and the loop goes on with the next target.
\* After the last target enableWhitelist returns
\* results.every(r => r.success) and the handler goes on without an await
AsyncEnableWhitelist(t) ==
  /\ tasks[t].pc = "enable"
  /\ LET i == tasks[t].i
         k == tasks[t].k
         list == tasks[t].list
         throws == k >= 2 /\ ~backend.br[i].allowKey
         task == [tasks[t] EXCEPT !.ok = @ /\ ~throws]
         more == ~throws /\ k <= Len(list)
     IN /\ backend' = IF throws THEN backend
                      ELSE IF k = 0 THEN Effect(backend, i, "setBlocklist")
                      ELSE IF k = 1 THEN Effect(backend, i, "createAllowlist")
                      ELSE SetAllowEntry(backend, i, k - 1, list[k - 1])
        /\ AsyncStep(t, IF more THEN [task EXCEPT !.k = k + 1]
                        ELSE IF i < NB THEN [task EXCEPT !.i = i + 1, !.k = 0]
                        ELSE AfterApplyPolicy(task))
        /\ settings' = IF ~more /\ i = NB THEN AfterApplyPolicySettings(task)
                       ELSE settings
  /\ UNCHANGED toggleStates

\* policy:resetAllPolicies up to the await of allowWriteAccess's command
AsyncResetAllPolicies(t) ==
  /\ Idle
  /\ tasks[t].pc = "idle"
  /\ Round
  /\ \A u \in 1..MaxTasks : ~(tasks[u].op = "resetAllPolicies" /\ InFlight(u))
  /\ AsyncStep(t, [NoTask EXCEPT !.op = "resetAllPolicies",
                     !.pc = IF authenticated THEN "drive" ELSE "done"])
  /\ UNCHANGED <<backend, settings, toggleStates>>

\* allowWriteAccess's command has run
AsyncAllowWriteAccess(t) ==
  /\ tasks[t].pc = "drive"
  /\ backend' = [backend EXCEPT !.wp = 0]
  /\ AsyncStep(t, [tasks[t] EXCEPT !.pc = "unblock", !.i = 1])
  /\ UNCHANGED <<settings, toggleStates>>

\* one command of the loops of unblockAllWebsites and disableWhitelist;
\* after the last one resetAllPolicies returns success and the handler
\* calls updateSettings, which assigns this.data.settings and awaits the
\* file write
AsyncForEachBrowser(t) ==
  /\ tasks[t].pc \in {"unblock", "disable"}
  /\ LET i == tasks[t].i
         unblock == tasks[t].pc = "unblock"
     IN /\ backend' = Effect(backend, i, IF unblock THEN "removeBlocklist"
                                         ELSE "removeBoth")
        /\ AsyncStep(t, IF i < NB THEN [tasks[t] EXCEPT !.i = i + 1]
                        ELSE IF unblock THEN [tasks[t] EXCEPT !.pc = "disable", !.i = 1]
                        ELSE [tasks[t] EXCEPT !.pc = "saveSettings"])
        /\ settings' =
             IF i = NB /\ ~unblock
             THEN updateSettings(AsyncContext, Store(settings, toggleStates),
                    [driveBlockEnabled |-> FALSE, websiteBlockEnabled |-> FALSE,
                     whitelistEnabled |-> FALSE, whitelistedDomains |-> <<>>]).settings
             ELSE settings
  /\ UNCHANGED toggleStates

\* the file write of updateSettings is over: policy:addDomain returns its
\* result; policy:resetAllPolicies calls updateToggleStates, which assigns
\* this.data.toggleStates and awaits the file write
AsyncSettingsSaved(t) ==
  /\ tasks[t].pc = "saveSettings"
  /\ LET reset == tasks[t].op = "resetAllPolicies"
     IN /\ AsyncStep(t, IF reset THEN [tasks[t] EXCEPT !.pc = "saveToggleStates"]
                        ELSE [tasks[t] EXCEPT !.pc = "done", !.success = TRUE])
        /\ toggleStates' =
             IF reset
             THEN updateToggleStates(AsyncContext, Store(settings, toggleStates),
                    [driveBlock |-> FALSE, websiteBlock |-> FALSE,
                     whitelist |-> FALSE, lastSynced |-> MaxTime]).toggleStates
             ELSE toggleStates
  /\ UNCHANGED <<backend, settings>>

\* the file write of updateToggleStates is over: return result
AsyncToggleStatesSaved(t) ==
  /\ tasks[t].pc = "saveToggleStates"
  /\ AsyncStep(t, [tasks[t] EXCEPT !.pc = "done", !.success = TRUE])
  /\ UNCHANGED <<backend, settings, toggleStates>>

\* the responses of a round have reached the renderer
AsyncReturn ==
  /\ \E t \in 1..MaxTasks : tasks[t].pc = "done"
  /\ \A t \in 1..MaxTasks : ~InFlight(t)
  /\ tasks' = NoTasks
  /\ UNCHANGED <<authenticated, backend, settings, toggleStates, ui, failures,
                 credentials, developerKey, last>>

\* the session is opened and closed while no request is under way
NextAsync ==
  \/ (tasks = NoTasks /\ Login)
  \/ (tasks = NoTasks /\ Logout)
  \/ IpcReturn
  \/ \E t \in 1..MaxTasks : AsyncAddDomain(t)
  \/ \E t \in 1..MaxTasks : AsyncGetDomainList(t)
  \/ \E t \in 1..MaxTasks : AsyncEnableWhitelist(t)
  \/ \E t \in 1..MaxTasks : AsyncResetAllPolicies(t)
  \/ \E t \in 1..MaxTasks : AsyncAllowWriteAccess(t)
  \/ \E t \in 1..MaxTasks : AsyncForEachBrowser(t)
  \/ \E t \in 1..MaxTasks : AsyncSettingsSaved(t)
  \/ \E t \in 1..MaxTasks : AsyncToggleStatesSaved(t)
  \/ AsyncReturn

SpecAsync == Init /\ [][NextAsync]_vars

\* ------------------------------------------------------------ properties
\* C1 (as amended): when every privilege check of a call answers false, each
\* mutating operation of the three controllers returns success=false with
\* INSUFFICIENT_PRIVILEGES, issues no backend command and leaves the backend
\* as it was, except that addDomain with a domain that fails validation
\* returns INVALID_DOMAIN_FORMAT (still without a backend command);
\* getDomainList, getCurrentPolicyStatus and syncPolicyStates return
\* success=true, and getWriteAccessStatus returns success=true exactly when
\* its read command does not throw
C1_PrivilegeGate ==
  [][ (Idle /\ last'.noPriv) =>
      LET c == last'
          mutators == {"blockWriteAccess", "allowWriteAccess", "blockAllWebsites",
                       "unblockAllWebsites", "enableWhitelist", "disableWhitelist",
                       "addDomain", "removeDomain", "applyPolicy",
                       "resetAllPolicies"}
          badAdd == c.op = "addDomain" /\ ~validateDomain(c.domain)
      IN /\ (c.op \in mutators) =>
              /\ ~c.r.success
              /\ c.r.error.code = IF badAdd THEN "INVALID_DOMAIN_FORMAT"
                                  ELSE "INSUFFICIENT_PRIVILEGES"
              /\ c.cmds = 0
              /\ c.log = <<>>
              /\ backend' = backend
         /\ (c.op \in {"getDomainList", "getCurrentPolicyStatus",
                       "syncPolicyStates"}) => c.r.success
         /\ (c.op = "getWriteAccessStatus") => (c.r.success <=> 1 \notin c.fails)
    ]_vars

\* C1 as stated: without privileges every mutating operation returns
\* INSUFFICIENT_PRIVILEGES and issues no command, and every read-only
\* operation returns success=true
C1_AsStated ==
  [][ (Idle /\ last'.noPriv) =>
      LET c == last'
      IN /\ (c.op \in {"blockWriteAccess", "allowWriteAccess", "blockAllWebsites",
                       "unblockAllWebsites", "enableWhitelist", "disableWhitelist",
                       "addDomain", "removeDomain", "applyPolicy",
                       "resetAllPolicies"}) =>
              /\ ~c.r.success
              /\ c.r.error.code = "INSUFFICIENT_PRIVILEGES"
              /\ c.cmds = 0
              /\ backend' = backend
         /\ (c.op \in {"getWriteAccessStatus", "getDomainList",
                       "getCurrentPolicyStatus", "syncPolicyStates"}) => c.r.success
    ]_vars

\* a whitelist is in place and disableWhitelist is refused for want of
\* privileges
C1_Witness ==
  /\ last.op = "disableWhitelist"
  /\ last.noPriv
  /\ last.r.error.code = "INSUFFICIENT_PRIVILEGES"
  /\ backend.br[1].allowKey
  /\ Len(backend.br[1].allow) > 0

\* C2: a request whose PolicyManager call did not return success=true (or
\* was never made) leaves settings and toggleStates exactly as they were
C2_PersistOnlyAfterSuccess ==
  [][ (Idle /\ ~last'.pm.success
       /\ last'.op \in {"toggleDriveBlock", "toggleWebsiteBlock", "toggleWhitelist",
                        "addDomain", "removeDomain", "syncPolicyStates",
                        "resetAllPolicies"})
      => (settings' = settings /\ toggleStates' = toggleStates) ]_vars

\* a reset in which a step failed has returned PARTIAL_RESET_FAILURE while
\* the store holds enabled flags
C2_Witness ==
  /\ last.op = "resetAllPolicies"
  /\ ~last.pm.success
  /\ last.pm.error.code = "PARTIAL_RESET_FAILURE"
  /\ settings.driveBlockEnabled
  /\ toggleStates.driveBlock

C4_FlagsAgree ==
  (Idle /\ failures = 0) =>
          /\ settings.driveBlockEnabled = toggleStates.driveBlock
          /\ settings.websiteBlockEnabled = toggleStates.websiteBlock
          /\ settings.whitelistEnabled = toggleStates.whitelist

\* C5 as stated: with no request in flight, and when reset-all-policies has
\* returned, the persisted drive flags are true exactly when the backend
\* write-protect flag is 1
C5_DriveAgrees ==
  (Idle \/ last.op = "resetAllPolicies") =>
          /\ toggleStates.driveBlock = (backend.wp = 1)
          /\ settings.driveBlockEnabled = (backend.wp = 1)

\* C6: a resetAllPolicies whose first privilege check passed has entered
\* allowWriteAccess, unblockAllWebsites and disableWhitelist once each in
\* that order; it succeeds exactly when the three steps did, otherwise it
\* returns PARTIAL_RESET_FAILURE, recoverable, with the three step results;
\* and what a successful step did is still in the backend
C6_ResetSteps ==
  (last.op = "resetAllPolicies" /\ last.admin) =>
     LET steps == last.r.steps
     IN /\ last.calls = <<"allowWriteAccess", "unblockAllWebsites",
                          "disableWhitelist">>
        /\ Len(steps) = 3
        /\ last.r.success = (\A j \in 1..3 : steps[j].success)
        /\ last.r.success => last.r.error = NoError
        /\ ~last.r.success => /\ last.r.error.code = "PARTIAL_RESET_FAILURE"
                              /\ last.r.error.recoverable
        /\ steps[1].success => backend.wp = 0
        /\ steps[2].success => \A i \in 1..NB : ~backend.br[i].block
        /\ steps[3].success => \A i \in 1..NB : backend.br[i] = NoBrowserPolicy

\* unblockAllWebsites failed on a target, the other two steps succeeded
C6_Witness ==
  /\ last.op = "resetAllPolicies"
  /\ last.admin
  /\ Len(last.r.steps) = 3
  /\ last.r.steps[1].success
  /\ ~last.r.steps[2].success
  /\ last.r.steps[3].success
  /\ last.r.error.code = "PARTIAL_RESET_FAILURE"

\* C7: when policy:resetAllPolicies has returned success the drive flag
\* does not block writes, no target has a blocklist rule or an allowlist
\* key, and the stored flags are false and the stored domain list is empty
C7_ResetDefaults ==
  (last.op = "resetAllPolicies" /\ last.r.success) =>
     /\ backend.wp # 1
     /\ \A i \in 1..NB : backend.br[i] = NoBrowserPolicy
     /\ ~settings.driveBlockEnabled
     /\ ~settings.websiteBlockEnabled
     /\ ~settings.whitelistEnabled
     /\ settings.whitelistedDomains = <<>>
     /\ ~toggleStates.driveBlock
     /\ ~toggleStates.websiteBlock
     /\ ~toggleStates.whitelist

\* a successful reset, arriving while the switches still show the drive
\* block and the whitelist that it removed
C7_Witness ==
  /\ last.op = "resetAllPolicies"
  /\ last.r.success
  /\ last.cmds = 1 + 2 * NB
  /\ ui.driveBlock
  /\ ui.whitelist

\* C8: a fan-out operation that got past its privilege check and its
\* validation has run commands for every target, target by target in the
\* order of Browsers; its result has one entry per target in that order,
\* an entry's success says that none of that target's commands threw, and
\* the overall success is the conjunction of the entries'
C8_FanOut ==
  (/\ last.op \in {"blockAllWebsites", "unblockAllWebsites", "enableWhitelist",
                   "disableWhitelist"}
   /\ last.admin
   /\ \A j \in 1..Len(last.domains) : validateDomain(last.domains[j])) =>
     LET log == last.log
         results == last.r.results
         pos(t) == CHOOSE i \in 1..NB : Browsers[i] = t
     IN /\ \A i \in 1..NB : \E j \in 1..Len(log) : log[j].target = Browsers[i]
        /\ \A j \in 1..Len(log) : \A k \in j..Len(log) :
             pos(log[j].target) <= pos(log[k].target)
        /\ (last.op # "enableWhitelist") => Len(log) = NB
        /\ Len(results) = NB
        /\ \A i \in 1..NB :
             /\ results[i].browser = Browsers[i]
             /\ results[i].success =
                  (\A j \in 1..Len(log) : log[j].target = Browsers[i] => log[j].ok)
        /\ last.r.success = (\A i \in 1..NB : results[i].success)

\* the second target's write threw and the third target was still written
C8_Witness ==
  /\ last.op = "blockAllWebsites"
  /\ last.admin
  /\ Len(last.r.results) = NB
  /\ last.r.results[1].success
  /\ ~last.r.results[2].success
  /\ last.r.results[3].success
  /\ backend.br[3].block
  /\ ~last.r.success

\* C9 as stated: a returned result has success=false exactly when it carries
\* an error
C9_PolicyResult ==
  ~Idle => (~last.r.success <=> last.r.error # NoError)

\* C10 (as amended): enableWhitelist with a list of which an element fails
\* validateDomain issues no backend command and leaves the backend as it
\* was; when its privilege check passes it returns INVALID_DOMAIN_FORMAT
\* with the invalid elements in input order, and INSUFFICIENT_PRIVILEGES
\* when it does not
C10_ValidateFirst ==
  [][ (/\ Idle
       /\ last'.op = "enableWhitelist"
       /\ \E j \in 1..Len(last'.domains) : ~validateDomain(last'.domains[j])) =>
      LET c == last'
      IN /\ c.cmds = 0
         /\ c.log = <<>>
         /\ backend' = backend
         /\ ~c.r.success
         /\ IF c.admin
            THEN /\ c.r.error.code = "INVALID_DOMAIN_FORMAT"
                 /\ c.r.error.invalidDomains =
                      SelectSeq(c.domains, LAMBDA d : ~validateDomain(d))
            ELSE c.r.error.code = "INSUFFICIENT_PRIVILEGES"
    ]_vars

\* C10 as stated: with an invalid element in the list enableWhitelist
\* returns INVALID_DOMAIN_FORMAT listing the invalid elements
C10_AsStated ==
  (/\ last.op = "enableWhitelist"
   /\ \E j \in 1..Len(last.domains) : ~validateDomain(last.domains[j])) =>
     /\ last.cmds = 0
     /\ last.r.error.code = "INVALID_DOMAIN_FORMAT"
     /\ last.r.error.invalidDomains =
          SelectSeq(last.domains, LAMBDA d : ~validateDomain(d))

\* a list of an invalid and a valid domain was refused with only the
\* invalid one listed
C10_Witness ==
  /\ last.op = "enableWhitelist"
  /\ last.admin
  /\ Len(last.domains) = 2
  /\ ~validateDomain(last.domains[1])
  /\ validateDomain(last.domains[2])
  /\ last.r.error.code = "INVALID_DOMAIN_FORMAT"
  /\ last.r.error.invalidDomains = <<last.domains[1]>>
  /\ last.cmds = 0

\* C11: when addDomain(d) has returned success and the caller calls
\* addDomain(d) again, with privileges held and no command throwing, the
\* second call returns success with status "already_exists" after a single
\* backend command, the read of the designated target's allowlist, and
\* leaves the backend, hence the whitelist of every target, as the first
\* call left it
C11_AddTwice ==
  [][ (/\ last.op = "addDomain"
       /\ last.r.success
       /\ last'.op = "addDomain"
       /\ last'.repeat
       /\ last'.admin
       /\ last'.fails = {}) =>
      /\ last'.domain = last.domain
      /\ validateDomain(last'.domain)
      /\ last'.r.success
      /\ last'.r.status = "already_exists"
      /\ last'.r.error = NoError
      /\ last'.cmds = 1
      /\ Len(last'.log) = 1
      /\ last'.log[1].cmd = "readAllowlist"
      /\ backend' = backend
    ]_vars

\* the second of two addDomain calls for a domain that the first appended
\* to a list of one other domain
C11_Witness ==
  /\ last.op = "addDomain"
  /\ last.repeat
  /\ last.admin
  /\ last.r.status = "already_exists"
  /\ last.cmds = 1
  /\ \A i \in 1..NB : /\ Len(backend.br[i].allow) = 2
                       /\ backend.br[i].allow[2] = last.domain
                       /\ backend.br[i].allow[1] # last.domain

\* C12: a removeDomain(d) that passed its privilege check and read a list
\* holding d and nothing else enters disableWhitelist and never
\* enableWhitelist; when it returns success its status is
\* "whitelist_disabled" and no target has a block-all rule, an allowlist
\* key or an allowlist entry
C12_RemoveLast ==
  [][ (/\ Idle
       /\ last'.op = "removeDomain"
       /\ last'.admin
       /\ 1 \notin last'.fails
       /\ backend.br[1].allow = <<last'.domain>>) =>
      /\ last'.calls = <<"removeDomain", "getDomainList", "disableWhitelist">>
      /\ \A j \in 1..Len(last'.log) : last'.log[j].cmd \in {"readAllowlist", "removeBoth"}
      /\ last'.r.success =>
            /\ last'.r.status = "whitelist_disabled"
            /\ \A i \in 1..NB : backend'.br[i] = NoBrowserPolicy
    ]_vars

\* the only domain was removed and every target's containers are gone
C12_Witness ==
  /\ last.op = "removeDomain"
  /\ last.r.success
  /\ last.r.status = "whitelist_disabled"
  /\ last.calls = <<"removeDomain", "getDomainList", "disableWhitelist">>
  /\ last.cmds = 1 + NB
  /\ \A i \in 1..NB : backend.br[i] = NoBrowserPolicy

\* C13 as stated: when removeDomain(d) returns success on an allowlist that
\* holds d and another domain (here: with privileges held and no command
\* throwing), the designated target's list no longer holds d and the
\* allowlist of every target is the list that was read without d
C13_RemoveRewrites ==
  [][ (/\ Idle
       /\ last'.op = "removeDomain"
       /\ last'.r.success
       /\ last'.admin
       /\ last'.fails = {}
       /\ Includes(backend.br[1].allow, last'.domain)
       /\ \E j \in 1..Len(backend.br[1].allow) :
             backend.br[1].allow[j] # last'.domain) =>
      /\ ~Includes(backend'.br[1].allow, last'.domain)
      /\ \A i \in 1..NB :
            backend'.br[i].allow =
              SelectSeq(backend.br[1].allow, LAMBDA x : x # last'.domain)
    ]_vars

\* C14: when enableWhitelist(D), called directly or by applyPolicy
\* ('whitelist', enabled), has returned success for a non-empty D, every
\* target has the block-all rule and the allowlist key, and its allowlist
\* entries 1..|D| are the elements of D in order
C14_Layered ==
  LET D == IF last.op = "enableWhitelist" THEN last.domains
           ELSE last.settings.domains.items
  IN (/\ \/ last.op = "enableWhitelist"
         \/ /\ last.op = "applyPolicy"
            /\ last.policyType = "whitelist"
            /\ last.settings.enabled = JsBool(TRUE)
      /\ last.r.success
      /\ Len(D) > 0) =>
        /\ \A j \in 1..Len(D) : validateDomain(D[j])
        /\ \A i \in 1..NB :
              /\ backend.br[i].block
              /\ backend.br[i].allowKey
              /\ Len(backend.br[i].allow) >= Len(D)
              /\ SubSeq(backend.br[i].allow, 1, Len(D)) = D

\* enableWhitelist has written a list of two domains to every target
C14_Witness ==
  /\ last.op = "enableWhitelist"
  /\ last.r.success
  /\ Len(last.domains) = 2
  /\ last.cmds = NB * 4
  /\ \A i \in 1..NB : backend.br[i].block /\ backend.br[i].allow = last.domains

\* C15 as stated: after successful addDomain and removeDomain calls from
\* the empty whitelist (here: none of them with a throwing command) the
\* list that getDomainList returns holds no domain twice
C15_NoDuplicates ==
  (last.op = "getDomainList" /\ failures = 0) =>
     \A j \in 1..Len(last.r.domains) : \A k \in 1..Len(last.r.domains) :
        (last.r.domains[j] = last.r.domains[k]) => j = k

\* C16 as stated: enabling the whitelist with an empty list is refused
\* without a backend change at the controller entry points (here: with
\* privileges held and no command throwing): applyPolicy('whitelist',
\* {enabled: true, domains: []}) returns INVALID_SETTINGS and
\* enableWhitelist([]) installs nothing
C16_EmptyRejected ==
  [][ (/\ Idle
       /\ last'.admin
       /\ last'.fails = {}
       /\ \/ last'.op = "enableWhitelist" /\ last'.domains = <<>>
          \/ /\ last'.op = "applyPolicy"
             /\ last'.policyType = "whitelist"
             /\ last'.settings.enabled = JsBool(TRUE)
             /\ last'.settings.domains = JsArray(<<>>)) =>
      /\ ~last'.r.success
      /\ (last'.op = "applyPolicy") => last'.r.error.code = "INVALID_SETTINGS"
      /\ last'.cmds = 0
      /\ backend' = backend
    ]_vars

\* C17 (as amended): getWriteAccessStatus makes no privilege check and
\* reports isBlocked=true only when the flag reads 1; when its command
\* runs and the flag is missing or unreadable (the command prints -1) it
\* returns success with status "allowed" and isBlocked=false; when the
\* command itself throws it returns success=false with an error and
\* neither a status nor isBlocked=true
C17_DefaultSafeRead ==
  (last.op = "getWriteAccessStatus") =>
     /\ last.checks = 0
     /\ last.cmds = 1
     /\ last.r.isBlocked => (backend.wp = 1 /\ last.r.success)
     /\ (1 \notin last.fails) =>
           /\ last.r.success
           /\ last.r.error = NoError
           /\ last.r.isBlocked = (backend.wp = 1)
           /\ last.r.status = IF backend.wp = 1 THEN "blocked" ELSE "allowed"
     /\ (1 \in last.fails) =>
           /\ ~last.r.success
           /\ last.r.error.code \in {"REGISTRY_ACCESS_DENIED", "INSUFFICIENT_PRIVILEGES",
                                     "REGISTRY_ERROR", "OPERATION_FAILED"}
           /\ last.r.status = ""
           /\ ~last.r.isBlocked

\* C17 as stated: isBlocked=true only when the flag reads 1, and whenever
\* the flag cannot be read (it is missing, or the read fails) the result
\* is status "allowed" with isBlocked=false
C17_AsStated ==
  (last.op = "getWriteAccessStatus") =>
     /\ last.r.isBlocked => backend.wp = 1
     /\ (backend.wp = -1 \/ 1 \in last.fails) =>
           /\ last.r.status = "allowed"
           /\ ~last.r.isBlocked

\* without privileges, the read command threw while the flag was 1
C17_Witness ==
  /\ last.op = "getWriteAccessStatus"
  /\ last.noPriv
  /\ 1 \in last.fails
  /\ backend.wp = 1
  /\ ~last.r.success
  /\ ~last.r.isBlocked

\* C18: getCurrentPolicyStatus always returns success=true without an
\* error of its own; when the drive status read threw it reports status
\* "unknown" with writeBlocked=false, otherwise the flag's status; when
\* the read of the domain list threw it reports an empty list with count
\* 0, otherwise the designated target's list and its length; and
\* whitelistActive is true exactly when the reported count is above 0
C18_StatusDegrades ==
  (last.op = "getCurrentPolicyStatus") =>
     LET p == last.r.policies
     IN /\ last.r.success
        /\ last.r.error = NoError
        /\ last.calls = <<"getWriteAccessStatus", "getDomainList">>
        /\ (1 \in last.fails) =>
              /\ p.status = "unknown"
              /\ ~p.writeBlocked
              /\ p.error # NoError
        /\ (1 \notin last.fails) =>
              /\ p.status = IF backend.wp = 1 THEN "blocked" ELSE "allowed"
              /\ p.writeBlocked = (backend.wp = 1)
              /\ p.error = NoError
        /\ (2 \in last.fails) =>
              /\ p.whitelistedDomains = <<>>
              /\ p.domainCount = 0
        /\ (2 \notin last.fails) =>
              /\ p.whitelistedDomains = backend.br[1].allow
              /\ p.domainCount = Len(backend.br[1].allow)
        /\ p.whitelistActive = (p.domainCount > 0)

\* the drive status read threw while the flag was 1 and a whitelist was
\* in place
C18_Witness ==
  /\ last.op = "getCurrentPolicyStatus"
  /\ 1 \in last.fails
  /\ backend.wp = 1
  /\ last.r.success
  /\ last.r.policies.status = "unknown"
  /\ last.r.policies.whitelistActive
  /\ last.r.policies.domainCount = 2

\* C19: an applyPolicy call whose privilege check passed returns
\* INVALID_POLICY_TYPE, not recoverable, for a kind other than drive,
\* browser, whitelist and domain, and INVALID_SETTINGS, not recoverable,
\* for a known kind with settings of the wrong shape (a flag that is no
\* boolean, domains that is no array or is empty when enabling, an action
\* other than add and remove, a domain that is no string or is empty); in
\* both cases it enters no controller operation, issues no command and
\* leaves the backend as it was
C19_BadArguments ==
  [][ (Idle /\ last'.op = "applyPolicy" /\ last'.admin) =>
      LET c == last'
          args == c.settings
          badType == c.policyType \notin {"drive", "browser", "whitelist", "domain"}
          badShape ==
            CASE c.policyType = "drive" -> ~args.blockWriteAccess.isBool
              [] c.policyType = "browser" -> ~args.blockAllWebsites.isBool
              [] c.policyType = "whitelist" ->
                   \/ ~args.enabled.isBool
                   \/ /\ args.enabled.val
                      /\ (~args.domains.isArray \/ args.domains.items = <<>>)
              [] c.policyType = "domain" ->
                   \/ args.action \notin {"add", "remove"}
                   \/ ~args.domain.isString
                   \/ args.domain.chars = <<>>
              [] OTHER -> FALSE
      IN /\ badType => /\ ~c.r.success
                        /\ c.r.error = Error("INVALID_POLICY_TYPE", FALSE)
         /\ badShape => /\ ~c.r.success
                         /\ c.r.error = Error("INVALID_SETTINGS", FALSE)
         /\ (badType \/ badShape) => /\ c.calls = <<>>
                                      /\ c.cmds = 0
                                      /\ c.checks = 1
                                      /\ backend' = backend
         /\ ~(badType \/ badShape) => c.calls # <<>>
    ]_vars

\* with privileges held, a domain policy with an unknown action was
\* refused while a drive block and a whitelist were in place
C19_Witness ==
  /\ last.op = "applyPolicy"
  /\ last.admin
  /\ last.policyType = "domain"
  /\ last.settings.action = "toggle"
  /\ last.r.error.code = "INVALID_SETTINGS"
  /\ last.calls = <<>>
  /\ backend.wp = 1
  /\ Len(backend.br[1].allow) > 0

\* C20 as stated: a returned INSUFFICIENT_PRIVILEGES error is recoverable
\* and the call that returns it has changed nothing in the backend (the
\* commands it issued are reads or threw), and a returned INVALID_SETTINGS,
\* INVALID_POLICY_TYPE or INVALID_DOMAIN_FORMAT error is not recoverable
C20_FailureClasses ==
  ~Idle =>
     /\ (last.r.error.code = "INSUFFICIENT_PRIVILEGES") =>
           /\ last.r.error.recoverable
           /\ \A j \in 1..Len(last.log) :
                 \/ ~last.log[j].ok
                 \/ last.log[j].cmd \in {"readAllowlist", "readWriteProtect"}
     /\ (last.r.error.code \in {"INVALID_SETTINGS", "INVALID_POLICY_TYPE",
                                 "INVALID_DOMAIN_FORMAT"}) =>
           ~last.r.error.recoverable

\* C21 as stated: every error a policy operation returns over IPC has its
\* code in the closed set of the specification
C21_AsStated ==
  (/\ last.op \in {"toggleDriveBlock", "toggleWebsiteBlock", "toggleWhitelist",
                    "addDomain", "removeDomain", "getDomains",
                    "getWhitelistedDomains", "getBlockedDomains", "getStatus",
                    "syncPolicyStates", "resetAllPolicies"}
   /\ last.r.error # NoError) =>
     last.r.error.code \in
       {"INSUFFICIENT_PRIVILEGES", "REGISTRY_ACCESS_DENIED", "REGISTRY_ERROR",
        "OPERATION_FAILED", "INVALID_DOMAIN_FORMAT", "INVALID_SETTINGS",
        "INVALID_POLICY_TYPE", "STATUS_RETRIEVAL_ERROR", "SYNC_ERROR",
        "PARTIAL_RESET_FAILURE", "POLICY_APPLICATION_ERROR"}

\* C21 (as amended): an error that a policy operation returns over IPC has
\* the code NOT_AUTHENTICATED when no session is authenticated; otherwise its
\* code is in the closed set of the specification or is the code of the
\* handler's catch block: POLICY_ERROR for the toggles, add-domain and
\* remove-domain, RESET_ERROR for reset-all-policies, DATA_ERROR for the
\* three domain reads, STATUS_ERROR for get-status
C21_ErrorCodes ==
  (/\ last.op \in {"toggleDriveBlock", "toggleWebsiteBlock", "toggleWhitelist",
                    "addDomain", "removeDomain", "getDomains",
                    "getWhitelistedDomains", "getBlockedDomains", "getStatus",
                    "syncPolicyStates", "resetAllPolicies"}
   /\ last.r.error # NoError) =>
     /\ ~last.r.success
     /\ IF ~authenticated THEN last.r.error.code = "NOT_AUTHENTICATED"
        ELSE \/ last.r.error.code \in
                  {"INSUFFICIENT_PRIVILEGES", "REGISTRY_ACCESS_DENIED",
                   "REGISTRY_ERROR", "OPERATION_FAILED", "INVALID_DOMAIN_FORMAT",
                   "INVALID_SETTINGS", "INVALID_POLICY_TYPE",
                   "STATUS_RETRIEVAL_ERROR", "SYNC_ERROR",
                   "PARTIAL_RESET_FAILURE", "POLICY_APPLICATION_ERROR"}
             \/ /\ last.r.error.code = "POLICY_ERROR"
                /\ last.op \in {"toggleDriveBlock", "toggleWebsiteBlock",
                                 "toggleWhitelist", "addDomain", "removeDomain"}
             \/ /\ last.r.error.code = "RESET_ERROR"
                /\ last.op = "resetAllPolicies"
             \/ /\ last.r.error.code = "DATA_ERROR"
                /\ last.op \in {"getDomains", "getWhitelistedDomains",
                                 "getBlockedDomains"}
             \/ /\ last.r.error.code = "STATUS_ERROR"
                /\ last.op = "getStatus"

\* toggle-drive-block changed the backend and then a file write threw
C21_Witness ==
  /\ authenticated
  /\ last.op = "toggleDriveBlock"
  /\ last.pm.success
  /\ ~last.r.success
  /\ last.r.error.code = "POLICY_ERROR"
  /\ backend.wp = 1

\* C22 as stated: a mutating call made while privileges are missing fails
\* with INSUFFICIENT_PRIVILEGES
C22_AsStated ==
  (last.op \in Mutating /\ last.noPriv) =>
     /\ ~last.r.success
     /\ last.r.error.code = "INSUFFICIENT_PRIVILEGES"

\* C22 (as amended): every mutating call consults the privilege state anew.
\* Whatever calls came before, a call made while privileges are missing
\* fails, with INSUFFICIENT_PRIVILEGES or, for addDomain of a domain that
\* fails validation, with INVALID_DOMAIN_FORMAT, and leaves the backend as
\* it was; and a call made with privileges held right after the same call
\* was refused for want of privileges passes its privilege checks: when none
\* of its commands throws it does not return INSUFFICIENT_PRIVILEGES, and it
\* returns what the same call returns on that backend after any other
\* history
C22_NoCaching ==
  [][ /\ (last'.op \in Mutating /\ last'.noPriv) =>
           /\ ~last'.r.success
           /\ last'.r.error.code =
                 IF last'.op = "addDomain" /\ ~validateDomain(last'.domain)
                 THEN "INVALID_DOMAIN_FORMAT" ELSE "INSUFFICIENT_PRIVILEGES"
           /\ last'.cmds = 0
           /\ backend' = backend
      /\ (/\ last.op \in Mutating
          /\ last.noPriv
          /\ last.r.error.code = "INSUFFICIENT_PRIVILEGES"
          /\ last'.op = last.op
          /\ last'.repeat
          /\ last'.held) =>
           /\ last'.checks >= 1
           /\ (last'.fails = {}) =>
                 /\ last'.r.error.code # "INSUFFICIENT_PRIVILEGES"
                 /\ last'.r =
                      Invoke(last, Context(TRUE, 0, {}, {}, {}, 1),
                             Machine(backend)).r
    ]_vars

\* blockWriteAccess was refused without privileges and the same call, made
\* again with privileges, has set the flag
C22_Witness ==
  /\ last.op = "blockWriteAccess"
  /\ last.repeat
  /\ last.held
  /\ last.checks = 1
  /\ last.r.success
  /\ backend.wp = 1

\* C23 as stated: when the privilege check at the start of applyPolicy or
\* resetAllPolicies has passed and no backend command throws, the call does
\* not return INSUFFICIENT_PRIVILEGES or PARTIAL_RESET_FAILURE, whatever
\* the later privilege checks of that call answer
C23_AdmittedCompletes ==
  (/\ last.op \in {"applyPolicy", "resetAllPolicies"}
   /\ last.admin
   /\ last.checks >= 1
   /\ last.fails = {}) =>
     last.r.error.code \notin {"INSUFFICIENT_PRIVILEGES", "PARTIAL_RESET_FAILURE"}

\* C24: with a session authenticated, privileges held and no command or
\* file write throwing, for a valid domain d: add-domain(d) on a backend
\* without browser policies, an empty stored list and websiteBlockEnabled
\* false returns success and leaves every target with the block-all rule
\* and the allowlist <<d>>, and the stored list <<d>>; add-domain(d) in
\* such a state returns "already_exists" and changes neither backend nor
\* store; remove-domain(d) in such a state leaves no blocklist and no
\* allowlist on any target and the stored list empty; none of the three
\* changes websiteBlockEnabled, and get-blocked-domains returns the empty
\* list in all these states
C24_Scenario ==
  [][
  LET Empty(be, st) ==
        /\ \A i \in 1..NB : be.br[i] = NoBrowserPolicy
        /\ st.whitelistedDomains = <<>>
        /\ ~st.websiteBlockEnabled
      Holds(be, st, d) ==
        /\ \A i \in 1..NB : be.br[i].block /\ be.br[i].allowKey
                              /\ be.br[i].allow = <<d>>
        /\ st.whitelistedDomains = <<d>>
        /\ ~st.websiteBlockEnabled
      Clean == /\ authenticated
               /\ last'.held
               /\ failures' = failures
               /\ validateDomain(last'.domain)
  IN     /\ (Empty(backend, settings) /\ Clean /\ last'.op = "addDomain") =>
              /\ last'.r.success
              /\ Holds(backend', settings', last'.domain)
         /\ (Holds(backend, settings, last'.domain) /\ Clean
               /\ last'.op = "addDomain") =>
              /\ last'.r.success
              /\ last'.r.status = "already_exists"
              /\ last'.saves = 0
              /\ backend' = backend
              /\ settings' = settings
              /\ toggleStates' = toggleStates
         /\ (Holds(backend, settings, last'.domain) /\ Clean
               /\ last'.op = "removeDomain") =>
              /\ last'.r.success
              /\ Empty(backend', settings')
              /\ \A i \in 1..NB : ~backend'.br[i].block /\ ~backend'.br[i].allowKey
         /\ (/\ \/ Empty(backend, settings)
                 \/ \E d \in Domains : Holds(backend, settings, d)
             /\ authenticated
             /\ last'.op = "getBlockedDomains") =>
              /\ last'.r.success
              /\ last'.r.domains = <<>>
  ]_vars

\* remove-domain has taken the only domain out again: no browser policy is
\* left and the stored list is empty
C24_Witness ==
  /\ last.op = "removeDomain"
  /\ last.held
  /\ failures = 0
  /\ last.r.success
  /\ last.r.status = "whitelist_disabled"
  /\ last.cmds = 1 + NB
  /\ \A i \in 1..NB : backend.br[i] = NoBrowserPolicy
  /\ settings.whitelistedDomains = <<>>
  /\ ~settings.websiteBlockEnabled

\* C25: with privileges held and no command throwing, unblockAllWebsites
\* and disableWhitelist return success and leave every target without a
\* blocklist (disableWhitelist: and without an allowlist) as it was, so that
\* the backend is unchanged when no target has the container; and the same
\* call made again right after a successful one returns the same result and
\* leaves the backend as the first call left it
C25_AbsentIsSuccess ==
  [][ /\ (/\ Idle
          /\ last'.op \in {"unblockAllWebsites", "disableWhitelist"}
          /\ last'.held
          /\ last'.fails = {}) =>
           /\ last'.r.success
           /\ last'.r.error = NoError
           /\ last'.cmds = NB
           /\ \A i \in 1..NB :
                 LET absent == IF last'.op = "unblockAllWebsites"
                               THEN ~backend.br[i].block
                               ELSE backend.br[i] = NoBrowserPolicy
                 IN absent => backend'.br[i] = backend.br[i]
      /\ (/\ last.op \in {"unblockAllWebsites", "disableWhitelist"}
          /\ last.r.success
          /\ last'.op = last.op
          /\ last'.repeat
          /\ last'.held
          /\ last'.fails = {}) =>
           /\ last'.r = last.r
           /\ last'.cmds = NB
           /\ backend' = backend
    ]_vars

\* disableWhitelist removed a whitelist and, called again on the targets
\* that now have no container, returned success again
C25_Witness ==
  /\ last.op = "disableWhitelist"
  /\ last.repeat
  /\ last.held
  /\ last.r.success
  /\ last.cmds = NB
  /\ \A i \in 1..NB : backend.br[i] = NoBrowserPolicy

\* C26: updateSettings(partial) sets every key of partial other than
\* lastUpdated to the value partial gives it, sets lastUpdated to the clock
\* reading, and leaves every other settings key, the toggleStates, the
\* credentials and the developer key as they were; updateToggleStates
\* (partial) sets exactly the keys of partial and leaves every other
\* toggleStates key, the settings, the credentials and the developer key as
\* they were
C26_MergeOnWrite ==
  [][ /\ (Idle /\ last'.op = "updateSettings") =>
           /\ DOMAIN settings' = DOMAIN settings \cup DOMAIN last'.partial
           /\ \A key \in DOMAIN settings' :
                 settings'[key] =
                   IF key = "lastUpdated" THEN last'.t
                   ELSE IF key \in DOMAIN last'.partial THEN last'.partial[key]
                   ELSE settings[key]
           /\ toggleStates' = toggleStates
           /\ credentials' = credentials
           /\ developerKey' = developerKey
      /\ (Idle /\ last'.op = "updateToggleStates") =>
           /\ DOMAIN toggleStates' = DOMAIN toggleStates \cup DOMAIN last'.partial
           /\ \A key \in DOMAIN toggleStates' :
                 toggleStates'[key] =
                   IF key \in DOMAIN last'.partial THEN last'.partial[key]
                   ELSE toggleStates[key]
           /\ settings' = settings
           /\ credentials' = credentials
           /\ developerKey' = developerKey
    ]_vars

\* updateSettings({whitelistedDomains}) on a store whose flags, toggle
\* states, credentials and developer key all differ from the defaults
C26_Witness ==
  /\ last.op = "updateSettings"
  /\ DOMAIN last.partial = {"whitelistedDomains"}
  /\ settings.whitelistedDomains = last.partial.whitelistedDomains
  /\ settings.whitelistedDomains # <<>>
  /\ settings.driveBlockEnabled
  /\ settings.websiteBlockEnabled
  /\ toggleStates.driveBlock
  /\ credentials.passwordHash # DefaultCredentials.passwordHash
  /\ developerKey # DefaultDeveloperKey

\* C27: authentication gate. Every policy:* and settings:* handler called
\* while the session is not authenticated returns NOT_AUTHENTICATED, issues
\* no backend command and writes nothing to the store; the session is
\* authenticated exactly when a login has succeeded and no logout has
\* happened since: a failed login leaves the session as it was, and no
\* operation other than logout ends it.
C27_AuthenticationGate ==
  [][ /\ (Idle /\ ~authenticated /\ last'.op \notin {"none", "login", "logout"}) =>
           /\ ~last'.r.success
           /\ last'.r.error.code = "NOT_AUTHENTICATED"
           /\ last'.cmds = 0
           /\ last'.saves = 0
           /\ backend' = backend
           /\ settings' = settings
           /\ toggleStates' = toggleStates
      /\ authenticated' =
           (\/ Idle /\ last'.op = "login" /\ last'.r.success
            \/ authenticated /\ ~(Idle /\ last'.op = "logout"))
    ]_vars

\* a request refused after a logout, in a session that had enabled the drive
\* block and added a domain while it was logged in
C27_Witness ==
  /\ last.op = "toggleWebsiteBlock"
  /\ last.enabled
  /\ ~authenticated
  /\ last.r.error.code = "NOT_AUTHENTICATED"
  /\ settings.driveBlockEnabled
  /\ settings.whitelistedDomains # <<>>
  /\ ~settings.websiteBlockEnabled

\* C28 as stated: the stored password hash changes only in a password change
\* whose secret was verified (current password, security answer or developer
\* key) and whose new password passes validatePasswordStrength; in every
\* other outcome the credentials are unchanged and success is false; after a
\* successful change authenticate succeeds with the new password and fails
\* with the old one.
C28_AsStated ==
  [][ LET method == last'.method
          data == last'.data
          change == Idle /\ last'.op = "changePassword"
          verified ==
            CASE method = "old" -> Compare(data.oldPassword, credentials.passwordHash)
              [] method = "security" ->
                   /\ credentials.securityQuestion # <<>>
                   /\ Compare(data.answer, credentials.securityAnswerHash)
              [] method = "developer" -> data.key = decryptString(developerKey)
              [] OTHER -> FALSE
          valid == validatePasswordStrength(data.newPassword)
          accepts(creds, password) ==
            authenticate(creds, creds.username, password).success
      IN /\ credentials'.passwordHash # credentials.passwordHash =>
              change /\ verified /\ valid
         /\ (change /\ ~(verified /\ valid)) =>
              credentials' = credentials /\ ~last'.r.success
         /\ (change /\ last'.r.success) =>
              /\ accepts(credentials', data.newPassword)
              /\ \A old \in Passwords :
                    accepts(credentials, old) => ~accepts(credentials', old)
    ]_vars

\* C28, amended: as above, but after a successful change authenticate
\* succeeds with the new password and with no other, so that it fails with
\* the old password whenever the new one differs from it.
C28_VerifiedChange ==
  [][ LET method == last'.method
          data == last'.data
          change == Idle /\ last'.op = "changePassword"
          verified ==
            CASE method = "old" -> Compare(data.oldPassword, credentials.passwordHash)
              [] method = "security" ->
                   /\ credentials.securityQuestion # <<>>
                   /\ Compare(data.answer, credentials.securityAnswerHash)
              [] method = "developer" -> data.key = decryptString(developerKey)
              [] OTHER -> FALSE
          valid == validatePasswordStrength(data.newPassword)
          accepts(creds, password) ==
            authenticate(creds, creds.username, password).success
      IN /\ credentials'.passwordHash # credentials.passwordHash =>
              change /\ verified /\ valid
         /\ (change /\ ~(verified /\ valid)) =>
              credentials' = credentials /\ ~last'.r.success
         /\ (change /\ last'.r.success) =>
              \A password \in Passwords :
                 accepts(credentials', password) <=> password = data.newPassword
    ]_vars

\* a password set through the security question after the developer key was
\* regenerated, in a store where the default password is gone
C28_Witness ==
  /\ last.op = "changePassword"
  /\ last.method = "security"
  /\ last.r.success
  /\ Compare(last.data.newPassword, credentials.passwordHash)
  /\ last.data.newPassword # AdminPassword
  /\ developerKey # DefaultDeveloperKey

\* C29: whitelist mode is always layered. In every state reached through the
\* IPC operations with no backend failure, whenever the allowlist of the
\* designated target (the first browser) is non-empty, which is when
\* syncPolicyStates and getCurrentPolicyStatus report the whitelist as
\* active, the block-all rule is present on that target.
C29_Layered ==
  failures = 0 =>
    /\ backend.br[1].allow # <<>> => backend.br[1].block
    /\ (last.op = "syncPolicyStates" /\ last.r.success /\ last.r.states.whitelist) =>
         backend.br[1].block

\* C30: the three toggles are independent. toggle-whitelist(false),
\* add-domain and remove-domain leave the block-all rule of a browser in
\* place when website blocking is switched on, and toggle-website-block
\* leaves every allowlist as it was.
C30_Independent ==
  [][ /\ (/\ Idle
           /\ \/ last'.op \in {"addDomain", "removeDomain"}
              \/ last'.op = "toggleWhitelist" /\ ~last'.enabled
           /\ toggleStates.websiteBlock) =>
             \A i \in 1..NB : backend.br[i].block => backend'.br[i].block
      /\ (Idle /\ last'.op = "toggleWebsiteBlock") =>
             \A i \in 1..NB : /\ backend'.br[i].allow = backend.br[i].allow
                               /\ backend'.br[i].allowKey = backend.br[i].allowKey
    ]_vars

\* C31: the two sources of truth for the whitelist agree. After every
\* add-domain or remove-domain that returns success, in any sequence of IPC
\* operations without backend failures (toggle-whitelist(false) included),
\* the set of persisted settings.whitelistedDomains equals the set of
\* domains in the allowlist of the designated browser target.
C31_ListsAgree ==
  (/\ last.op \in {"addDomain", "removeDomain"}
   /\ last.r.success
   /\ failures = 0) =>
     { settings.whitelistedDomains[i] : i \in 1..Len(settings.whitelistedDomains) }
       = { backend.br[1].allow[i] : i \in 1..Len(backend.br[1].allow) }

\* C32 as stated: the whitelist is applied identically across all browser
\* targets. Every completed enableWhitelist, disableWhitelist, addDomain or
\* removeDomain call, per-target backend writes of which may fail, leaves
\* all browser targets with the same allowlist contents and the same
\* blocklist presence when they had the same before it.
C32_AsStated ==
  [][ LET Same(be) == \A i \in 1..NB, j \in 1..NB :
                         /\ be.br[i].allow = be.br[j].allow
                         /\ be.br[i].block = be.br[j].block
      IN (/\ Idle
          /\ last'.op \in {"enableWhitelist", "disableWhitelist",
                            "addDomain", "removeDomain"}
          /\ Same(backend)) => Same(backend')
    ]_vars

\* C32, amended: every enableWhitelist, disableWhitelist, addDomain or
\* removeDomain call that returns success leaves all browser targets with
\* the same allowlist contents and the same blocklist presence when they had
\* the same before it; a call one of whose per-target writes fails returns
\* success=false.
C32_IdenticalOnSuccess ==
  [][ LET Same(be) == \A i \in 1..NB, j \in 1..NB :
                         /\ be.br[i].allow = be.br[j].allow
                         /\ be.br[i].block = be.br[j].block
      IN (/\ Idle
          /\ last'.op \in {"enableWhitelist", "disableWhitelist",
                            "addDomain", "removeDomain"}
          /\ last'.r.success
          /\ Same(backend)) => Same(backend')
    ]_vars

\* addDomain succeeding although a backend command of the call failed (the
\* read of the current list), on targets that all hold the new list
C32_Witness ==
  /\ last.op = "addDomain"
  /\ last.r.success
  /\ last.fails # {}
  /\ backend.br[1].allow # <<>>
  /\ \A i \in 1..NB : /\ backend.br[i].allow = backend.br[1].allow
                       /\ backend.br[i].block

\* C33: a successful addDomain(d) never removes or overwrites a domain that
\* was in a browser target's allowlist before the call, also when the read
\* of the current list fails and addDomain proceeds from the empty list
\* getDomainList then reports.
C33_AddKeepsDomains ==
  [][ (Idle /\ last'.op = "addDomain" /\ last'.r.success) =>
        \A i \in 1..NB :
          \A k \in 1..Len(backend.br[i].allow) :
            \E n \in 1..Len(backend'.br[i].allow) :
              backend'.br[i].allow[n] = backend.br[i].allow[k]
    ]_vars

\* C34: requests are effectively serialized. When two add-domain requests
\* for distinct valid domains d1 and d2 are under way together and both
\* have returned success, the allowlist of every browser target contains
\* both d1 and d2.
C34_NoLostUpdate ==
  \A t \in 1..MaxTasks, u \in 1..MaxTasks :
     (/\ t # u
      /\ tasks[t].op = "addDomain" /\ tasks[u].op = "addDomain"
      /\ tasks[t].pc = "done" /\ tasks[u].pc = "done"
      /\ tasks[t].success /\ tasks[u].success
      /\ tasks[t].domain # tasks[u].domain) =>
       \A i \in 1..NB : /\ Includes(backend.br[i].allow, tasks[t].domain)
                        /\ Includes(backend.br[i].allow, tasks[u].domain)

\* C35: overlapping requests are linearizable. When an add-domain request
\* for d and a reset-all-policies request are under way together and both
\* have returned success, the backend and the persisted state are those of
\* one of the two sequential orders: everything is in the default state, or
\* the whitelist holds exactly d on every browser target and in the
\* persisted list.
C35_Linearizable ==
  \A t \in 1..MaxTasks, u \in 1..MaxTasks :
     (/\ tasks[t].op = "addDomain" /\ tasks[u].op = "resetAllPolicies"
      /\ tasks[t].pc = "done" /\ tasks[u].pc = "done"
      /\ tasks[t].success /\ tasks[u].success) =>
       /\ backend.wp = 0
       /\ ~settings.driveBlockEnabled /\ ~settings.websiteBlockEnabled
       /\ ~settings.whitelistEnabled
       /\ ~toggleStates.driveBlock /\ ~toggleStates.websiteBlock
       /\ ~toggleStates.whitelist
       /\ \/ /\ \A i \in 1..NB : backend.br[i] = NoBrowserPolicy
             /\ settings.whitelistedDomains = <<>>
          \/ /\ \A i \in 1..NB :
                   backend.br[i] = [block |-> TRUE, allowKey |-> TRUE,
                                    allow |-> <<tasks[t].domain>>]
             /\ settings.whitelistedDomains = <<tasks[t].domain>>

\* C36: sync-policy-states never overwrites a persisted toggle flag with a
\* value that was not read from the backend. When the drive status read (the
\* first command of the request) fails, either the sync reports failure or
\* the persisted toggleStates.driveBlock keeps its previous value.
C36_SyncKeepsUnread ==
  [][ (Idle /\ last'.op = "syncPolicyStates" /\ 1 \in last'.fails) =>
        \/ ~last'.r.success
        \/ toggleStates'.driveBlock = toggleStates.driveBlock
    ]_vars

\* C37: a failed persistent write is not observable as a successful one. If
\* DataStore.updateSettings or DataStore.updateToggleStates throws because
\* the file write fails, getSettings and getToggleStates afterwards return
\* the values from before the failed update.
C37_FailedWriteInvisible ==
  [][ (/\ Idle
       /\ last'.op \in {"updateSettings", "updateToggleStates"}
       /\ ~last'.r.success) =>
         /\ settings' = settings
         /\ toggleStates' = toggleStates
    ]_vars

\* C38: every value written to a browser target's allowlist by
\* enableWhitelist, addDomain or removeDomain satisfies the DomainEntry
\* grammar: a bare hostname of dot-separated labels whose final label is
\* alphabetic with length at least 2, without scheme prefix and without path
\* suffix (a URL is rejected or stored stripped); and the enable path and
\* the add path reject the same inputs.
C38_EntriesMatchGrammar ==
  LET Letters == Lower \cup Upper
      FinalLabel(d) ==
        LET dots == { i \in 1..Len(d) : d[i] = "." }
            start == IF dots = {} THEN 1
                     ELSE 1 + CHOOSE i \in dots : \A j \in dots : j <= i
        IN SubSeq(d, start, Len(d))
      DomainEntry(d) ==
        /\ domainRegexTest(d)
        /\ Len(FinalLabel(d)) >= 2
        /\ \A i \in 1..Len(FinalLabel(d)) : FinalLabel(d)[i] \in Letters
      cx == Context(TRUE, 0, {}, {}, {}, 1)
      Rejected(res) == ~res.r.success /\ res.r.error.code = "INVALID_DOMAIN_FORMAT"
  IN /\ \A i \in 1..NB : \A k \in 1..Len(backend.br[i].allow) :
          DomainEntry(backend.br[i].allow[k])
     /\ \A d \in PoolDomains :
          Rejected(enableWhitelist(cx, Machine(DefaultBackend), <<d>>))
            <=> Rejected(addDomain(cx, Machine(DefaultBackend), d))

\* C39: backend failures are classified identically in both controllers.
\* _handleRegistryError and _handlePolicyError map every failure message to
\* the same code, by substring tests on the lower-cased message in this
\* order: "access denied" gives REGISTRY_ACCESS_DENIED; else "privilege" or
\* "administrator" gives INSUFFICIENT_PRIVILEGES; else "registry" or "item
\* not found" gives REGISTRY_ERROR; else OPERATION_FAILED; and every backend
\* write failure of a drive or browser operation is reported with one of
\* these four codes. A message is the set of the substrings it contains.
C39_SameClassification ==
  LET Substrings == {"access is denied", "access denied", "privilege",
                     "administrator", "registry", "itemnotfound",
                     "item not found"}
      Classified(msg) ==
        IF "access denied" \in msg THEN "REGISTRY_ACCESS_DENIED"
        ELSE IF "privilege" \in msg \/ "administrator" \in msg
        THEN "INSUFFICIENT_PRIVILEGES"
        ELSE IF "registry" \in msg \/ "item not found" \in msg
        THEN "REGISTRY_ERROR"
        ELSE "OPERATION_FAILED"
      Writes == {"blockWriteAccess", "allowWriteAccess", "blockAllWebsites",
                 "unblockAllWebsites", "enableWhitelist", "disableWhitelist",
                 "addDomain", "removeDomain"}
      Reads == {"readAllowlist", "readWriteProtect"}
  IN /\ \A msg \in SUBSET Substrings :
          /\ handleRegistryError(msg).error.code = handlePolicyError(msg).error.code
          /\ handleRegistryError(msg).error.code = Classified(msg)
     /\ (/\ last.op \in Writes
         /\ \E j \in 1..Len(last.log) :
               ~last.log[j].ok /\ last.log[j].cmd \notin Reads) =>
           last.r.error.code \in {"REGISTRY_ACCESS_DENIED", "INSUFFICIENT_PRIVILEGES",
                                  "REGISTRY_ERROR", "OPERATION_FAILED"}

\* C40: read operations have no effect on policy state. get-status,
\* get-domains, get-whitelisted-domains and get-blocked-domains change
\* neither the backend nor the persisted settings and toggle states;
\* sync-policy-states changes no backend state and no settings field, only
\* the toggleStates fields driveBlock, websiteBlock, whitelist and
\* lastSynced; and a get-blocked-domains request that is served (C27: one
\* made in an authenticated session) returns ["*"] exactly when the
\* persisted websiteBlockEnabled is true and [] otherwise.
C40_ReadsChangeNothing ==
  [][ /\ (Idle /\ last'.op \in {"getStatus", "getDomains", "getWhitelistedDomains",
                                 "getBlockedDomains"}) =>
           /\ backend' = backend
           /\ settings' = settings
           /\ toggleStates' = toggleStates
      /\ (Idle /\ last'.op = "syncPolicyStates") =>
           /\ backend' = backend
           /\ settings' = settings
           /\ DOMAIN toggleStates' = {"driveBlock", "websiteBlock", "whitelist", "lastSynced"}
      /\ (Idle /\ last'.op = "getBlockedDomains" /\ authenticated) =>
           /\ last'.r.success
           /\ last'.r.domains = IF settings.websiteBlockEnabled THEN AllWebsites ELSE <<>>
    ]_vars

\* get-blocked-domains answering ["*"] from the settings after a sync has
\* set the websiteBlock toggle state to false, with a whitelisted domain and
\* the drive block in place
C40_Witness ==
  /\ last.op = "getBlockedDomains"
  /\ last.r.domains = AllWebsites
  /\ settings.websiteBlockEnabled
  /\ ~toggleStates.websiteBlock
  /\ toggleStates.lastSynced # DefaultToggleStates.lastSynced
  /\ backend.br[1].block

====
